---------------------------- MODULE Spec2Model ----------------------------
(***************************************************************************)
(* Pitch-practice front end (Qubit-Capital/company-tree).                  *)
(*                                                                         *)
(* The repository holds one retry utility (apiCallWithRetry), three API    *)
(* clients (processAiropsDeck, createRetellSession, getCallTranscript) and *)
(* two implementations of the App component: variant "A" (handleStart /    *)
(* startCall / endCall) and variant "B" (handleSubmitLink /                *)
(* startPracticeCall / handleCallEnded).  The variable impl says which     *)
(* program runs: "A", "B", or "R" for apiCallWithRetry driven directly     *)
(* with an arbitrary operation.                                            *)
(*                                                                         *)
(* JavaScript is single threaded: every action below is one run-to-        *)
(* completion step (an event handler, or the continuation of an async      *)
(* function after one await).  A React closure reads the state of the      *)
(* render it was created in; refs (xRef.current) are read live.  Async     *)
(* invocations in flight are the elements of tasks, each with the state    *)
(* its closure captured (cap).                                             *)
(***************************************************************************)
EXTENDS Integers, Sequences, FiniteSets, TLC

\* ------------------------------------------------------------------ bounds
MaxAttemptsBound == 3   \* largest maxAttempts the retry configurations draw
MaxClients == 2         \* RetellWebClient objects created in one behaviour
MaxTime == 1            \* seconds of wall-clock time that pass in one behaviour
MaxEndCalls == 1        \* endCall invocations in flight when End Call is clicked
MaxUtterances == 2      \* turns in a provider transcript
MaxDeckSeconds == 62    \* seconds one deck-processing attempt is followed for

\* ------------------------------------------------------- program constants
DefaultMaxAttempts == 3
DefaultBaseDelay == 1000
DefaultMaxDelay == 10000
DefaultBackoffMultiplier == 2
DeckMaxAttempts == 3
SessionMaxAttempts == 3
TranscriptMaxAttempts == 2
FallbackLimit == 1000   \* substring(0, 1000) of the fallback deck text
DeckTimeoutMs == 60000  \* setTimeout(() => controller.abort(), 60000)

\* --------------------------------------------------------------- JS values
\* undefined / null in a slot that otherwise holds a string; 0 stands for null
\* in a slot that otherwise holds a positive number (a timer id, a timestamp).
Undefined == "<undefined>"
Null == "<null>"
\* undefined in a slot that otherwise holds a thrown value
UndefinedValue == [type |-> "undefined", id |-> "none", message |-> <<"undefined">>]

Min(a, b) == IF a <= b THEN a ELSE b

RECURSIVE Pow(_, _)
Pow(b, e) == IF e <= 0 THEN 1 ELSE b * Pow(b, e - 1)

\* A settled promise: resolved with a value or rejected with a reason.
Resolved(v) == [ok |-> TRUE, value |-> v]
Rejected(v) == [ok |-> FALSE, value |-> v]

\* Values an operation can reject with: Error objects (identified by id) and
\* a non-Error value (a thrown string).
ErrorObj(id, msg) == [type |-> "Error", id |-> id, message |-> msg]
ThrownString(s) == [type |-> "string", id |-> "none", message |-> s]

\* new Error(String(error)): a fresh Error object whose message is the text.
NewErrorOfString(v) == [type |-> "Error", id |-> "fresh", message |-> v.message]

IsError(v) == v.type = "Error"

\* ------------------------------------------------------- apiCallWithRetry
\* const {maxAttempts = 3, baseDelay = 1000, maxDelay = 10000,
\*        backoffMultiplier = 2} = config
\* A config object is a record that holds only the fields the caller passed.
Default(config, field, d) == IF field \in DOMAIN config THEN config[field] ELSE d

ResolveConfig(config) ==
  [maxAttempts |-> Default(config, "maxAttempts", DefaultMaxAttempts),
   baseDelay |-> Default(config, "baseDelay", DefaultBaseDelay),
   maxDelay |-> Default(config, "maxDelay", DefaultMaxDelay),
   backoffMultiplier |-> Default(config, "backoffMultiplier", DefaultBackoffMultiplier)]

\* variation: the rejection value is kept as it is
ToLastErrorUnchanged(reason) == reason

\* lastError = error instanceof Error ? error : new Error(String(error))
ToLastError(reason) == IF IsError(reason) THEN reason ELSE NewErrorOfString(reason)

\* variation: the exponent is the attempt number
BackoffDelayFromAttempt(cfg, attempt) ==
  Min(cfg.baseDelay * Pow(cfg.backoffMultiplier, attempt), cfg.maxDelay)

\* Math.min(baseDelay * Math.pow(backoffMultiplier, attempt - 1), maxDelay)
BackoffDelay(cfg, attempt) ==
  Min(cfg.baseDelay * Pow(cfg.backoffMultiplier, attempt - 1), cfg.maxDelay)

\* variation: the loop test is "attempt < maxAttempts"
RetryLoopHeadStrict(r) ==
  IF r.attempt < r.cfg.maxAttempts
  THEN [r EXCEPT !.phase = "invoking", !.invocations = @ + 1]
  ELSE [r EXCEPT !.phase = "thrown", !.thrown = r.lastError]

\* The loop test "attempt <= maxAttempts" at the head of an iteration: either
\* the operation is invoked (phase "invoking") or the loop is left and
\* lastError is thrown (phase "thrown").
RetryLoopHead(r) ==
  IF r.attempt <= r.cfg.maxAttempts
  THEN [r EXCEPT !.phase = "invoking", !.invocations = @ + 1]
  ELSE [r EXCEPT !.phase = "thrown", !.thrown = r.lastError]

\* Entry of apiCallWithRetry: locals initialised, first loop test.
RetryBegin(config) ==
  RetryLoopHead([cfg |-> ResolveConfig(config), attempt |-> 1, phase |-> "entry",
                 lastError |-> UndefinedValue, result |-> UndefinedValue,
                 thrown |-> UndefinedValue, invocations |-> 0, waits |-> <<>>])

\* variation: every failure is followed by a backoff wait
RetrySettleAlwaysWaits(r, outcome) ==
  IF outcome.ok
  THEN [r EXCEPT !.phase = "returned", !.result = outcome.value]
  ELSE [r EXCEPT !.phase = "waiting", !.lastError = ToLastErrorUnchanged(outcome.value),
                 !.waits = Append(@, BackoffDelayFromAttempt(r.cfg, r.attempt))]


\* The awaited apiCall() settles: return on success; on failure remember the
\* error and either break out (last attempt) or start the backoff wait.
RetrySettle(r, outcome) ==
  IF outcome.ok
  THEN [r EXCEPT !.phase = "returned", !.result = outcome.value]
  ELSE LET e == ToLastError(outcome.value) IN
       IF r.attempt = r.cfg.maxAttempts
       THEN [r EXCEPT !.phase = "thrown", !.lastError = e, !.thrown = e]
       ELSE [r EXCEPT !.phase = "waiting", !.lastError = e,
                      !.waits = Append(@, BackoffDelay(r.cfg, r.attempt))]

\* The backoff setTimeout fires: attempt++ and the loop test again.
RetryWake(r) == RetryLoopHead([r EXCEPT !.attempt = @ + 1])

\* The retry slot of a task that is not inside apiCallWithRetry.
NoRetry ==
  [cfg |-> ResolveConfig(<<>>), attempt |-> 0, phase |-> "none",
   lastError |-> UndefinedValue, result |-> UndefinedValue,
   thrown |-> UndefinedValue, invocations |-> 0, waits |-> <<>>]

\* ------------------------------------------------------------------ strings
\* A JavaScript string is a sequence of tokens: single characters where the
\* code looks at characters (trim, the link patterns), longer fragments where
\* it only concatenates and compares.  The empty string is <<>>.
SP == " "
EmptyStr == <<>>
NullStr == <<Null>>
UndefinedStr == <<Undefined>>

\* A string is truthy unless it is empty (null and undefined are falsy too).
Truthy(str) == str # EmptyStr /\ str # NullStr /\ str # UndefinedStr

RECURSIVE TrimStart(_)
TrimStart(str) ==
  IF str # <<>> /\ Head(str) = SP THEN TrimStart(Tail(str)) ELSE str

RECURSIVE TrimEnd(_)
TrimEnd(str) ==
  IF str # <<>> /\ str[Len(str)] = SP THEN TrimEnd(SubSeq(str, 1, Len(str) - 1)) ELSE str

\* String.prototype.trim
Trim(str) == TrimEnd(TrimStart(str))

\* String.prototype.includes for a fragment
Includes(str, frag) == \E i \in 1..Len(str) : str[i] = frag

\* prefix test, the shape of every /^.../ pattern of the link validators
StartsWith(str, prefix) ==
  Len(str) >= Len(prefix) /\ SubSeq(str, 1, Len(prefix)) = prefix

\* Link tokens: scheme and host, the path prefix, one character of the id class
\* [a-zA-Z0-9_-] ("x") and one character outside it ("?").
DriveHost == "https://drive.google.com/"
DocsHost == "https://docs.google.com/"
IdChar == "x"

DriveFileLink == <<DriveHost, "file/d/", IdChar>>
DriveOpenLink == <<DriveHost, "open?id=", IdChar>>
DocsPresentationLink == <<DocsHost, "presentation/d/", IdChar>>
DriveNoIdLink == <<DriveHost, "file/d/">>
OtherHostLink == <<"http://example.com/", IdChar>>

\* variant A: ^https://drive.google.com/(file/d/|open?id=)([a-zA-Z0-9_-]+)
\* preceded by "if (!url.trim()) return true"
driveRegex(url) ==
  \/ StartsWith(url, <<DriveHost, "file/d/", IdChar>>)
  \/ StartsWith(url, <<DriveHost, "open?id=", IdChar>>)

isValidDriveLink(url) ==
  IF Trim(url) = EmptyStr THEN TRUE ELSE driveRegex(url)

\* variant B: drivePatterns.some(pattern => pattern.test(url))
validateGoogleDriveLink(url) ==
  \/ StartsWith(url, <<DriveHost, "file/d/", IdChar>>)
  \/ StartsWith(url, <<DocsHost, "presentation/d/", IdChar>>)
  \/ StartsWith(url, <<DocsHost, "document/d/", IdChar>>)

\* What the user can type into the two landing-page inputs.
NameInputs == {EmptyStr, <<SP>>, <<"Ana">>}
LinkInputs == {EmptyStr, <<SP>>, DriveFileLink, OtherHostLink}

DigitChar(n) == <<"0", "1", "2", "3", "4", "5", "6", "7", "8", "9">>[n + 1]

\* n.toString().padStart(2, '0') for 0 <= n < 100
Pad2(n) == <<DigitChar(n \div 10), DigitChar(n % 10)>>

\* formatCallTime (variant A): MM:SS, both parts padded to two digits
formatCallTime(seconds) == Pad2(seconds \div 60) \o <<":">> \o Pad2(seconds % 60)

\* formatTime (variant B): M:SS, only the seconds padded
formatTime(seconds) == <<DigitChar(seconds \div 60)>> \o <<":">> \o Pad2(seconds % 60)

\* ------------------------------------------------------------- API clients
\* What the network can answer to one fetch: the request fails (fetch
\* rejects), is aborted by the 60 s timer (deck only), or a response arrives
\* with a status and a JSON body.  A body is a record; a field the body lacks
\* holds UndefinedStr (strings) or FALSE (success).
AgentId == <<"agent_b795ddf35c70722141b715a820">>

NetFailure == [kind |-> "reject", ok |-> FALSE, body |-> <<>>]
NetAbort == [kind |-> "abort", ok |-> FALSE, body |-> <<>>]
HttpError(text) == [kind |-> "response", ok |-> FALSE, body |-> text]
HttpOk(body) == [kind |-> "response", ok |-> TRUE, body |-> body]

FetchFailedMessage == <<"Failed to fetch">>
BackendErrorMessage(text) == <<"Backend API error: ", "500", " - ">> \o text

\* --- processAiropsDeck
DeckBody(success, pitch_text, err) ==
  [success |-> success, hasOutputs |-> pitch_text # UndefinedStr,
   pitch_text |-> pitch_text, error |-> err]

DeckText == <<"pitch deck text">>
DeckBodyGood == DeckBody(TRUE, DeckText, UndefinedStr)
DeckBodyEmptyText == DeckBody(TRUE, EmptyStr, UndefinedStr)
DeckBodyNoOutputs == DeckBody(TRUE, UndefinedStr, UndefinedStr)
DeckBodyError == DeckBody(FALSE, UndefinedStr, <<"Failed to process deck: ", "access", " denied">>)

DeckNetOutcomes ==
  {NetFailure, NetAbort,
   HttpError(<<"Failed to process deck: ", "Airops ", "API key", " is not configured">>),
   HttpOk(DeckBodyGood), HttpOk(DeckBodyEmptyText), HttpOk(DeckBodyNoOutputs),
   HttpOk(DeckBodyError)}

DeckTimeoutMessage ==
  <<"Processing timed out. The file may be too large or in an unsupported format.">>
DeckInvalidMessage == <<"Invalid response format from backend">>

AiropsFailure(msg) ==
  [success |-> FALSE, hasOutputs |-> FALSE, pitch_text |-> UndefinedStr, error |-> msg]

\* processAiropsDeck: every failure is caught and returned as
\* {success: false, error}; the promise never rejects.
processAiropsDeck(net) ==
  Resolved(
    IF net.kind = "abort" THEN AiropsFailure(DeckTimeoutMessage)
    ELSE IF net.kind = "reject" THEN AiropsFailure(FetchFailedMessage)
    ELSE IF ~net.ok THEN AiropsFailure(BackendErrorMessage(net.body))
    ELSE IF Truthy(net.body.error) THEN AiropsFailure(net.body.error)
    ELSE IF ~net.body.success \/ ~net.body.hasOutputs \/ ~Truthy(net.body.pitch_text)
         THEN AiropsFailure(DeckInvalidMessage)
    ELSE [success |-> TRUE, hasOutputs |-> TRUE, pitch_text |-> net.body.pitch_text,
          error |-> UndefinedStr])

\* --- createRetellSession
SessionBody(call_id, access_token, err) ==
  [call_id |-> call_id, access_token |-> access_token, error |-> err]

\* the call id and the credential the provider mints for the n-th request
CallIdOf(n) == <<"call", DigitChar(n)>>
TokenOf(n) == <<"token", DigitChar(n)>>

SessionNetOutcomes(n) ==
  {NetFailure, HttpError(<<"Failed to create Retell session">>),
   HttpOk(SessionBody(CallIdOf(n), TokenOf(n), UndefinedStr)),
   HttpOk(SessionBody(UndefinedStr, TokenOf(n), UndefinedStr)),
   HttpOk(SessionBody(CallIdOf(n), UndefinedStr, UndefinedStr)),
   HttpOk(SessionBody(UndefinedStr, UndefinedStr, <<"agent not found">>))}

\* createRetellSession: {...data, success: true} on a 2xx response, otherwise
\* the failure is caught and returned; the promise never rejects.
createRetellSession(net) ==
  Resolved(
    IF net.kind = "reject"
    THEN [success |-> FALSE, call_id |-> EmptyStr, access_token |-> EmptyStr,
          error |-> FetchFailedMessage]
    ELSE IF ~net.ok
    THEN [success |-> FALSE, call_id |-> EmptyStr, access_token |-> EmptyStr,
          error |-> BackendErrorMessage(net.body)]
    ELSE [success |-> TRUE, call_id |-> net.body.call_id,
          access_token |-> net.body.access_token, error |-> net.body.error])

\* --- getCallTranscript
RealTranscript(call_id, call_duration) ==
  <<"Investor: Hi", "\n\n", "Founder: Hello", "\n\nCall Duration: ">> \o call_duration
    \o <<"\nCall ID: ">> \o call_id

TranscriptNetOutcomes(request) ==
  {NetFailure,
   HttpOk([transcript |-> RealTranscript(request.call_id, request.call_duration)]),
   HttpOk([transcript |-> UndefinedStr])}

\* getCallTranscript: {...data, success: true} on a 2xx response, otherwise
\* {transcript: `Session completed. Call ID: ${call_id}`, success: false}.
getCallTranscript(request, net) ==
  Resolved(
    IF net.kind = "reject" \/ ~net.ok
    THEN [success |-> FALSE,
          transcript |-> <<"Session completed. Call ID: ">> \o request.call_id]
    ELSE [success |-> TRUE, transcript |-> net.body.transcript])

\* -------------------------------------------------------------------- state
VARIABLES
  impl,      \* which program runs: "A", "B" (the two App components) or "R"
  state,     \* React state of the App component (the useState values)
  ref,       \* the useRef cells: callTimerRef, retellClientRef, callIdRef, apiCallMadeRef
  tasks,     \* async invocations in flight, each suspended at an await
  clients,   \* the RetellWebClient objects created so far, in creation order
  timers,    \* the running setInterval timers (named by the client they were started for)
  now,       \* Date.now(), in seconds
  transcriptRequests,  \* per call_id, the number of transcript requests issued for it
  opLog      \* "R" only: how each invocation of the operation settled, in order

vars == <<impl, state, ref, tasks, clients, timers, now, transcriptRequests, opLog>>

NoSessionResponse ==
  [present |-> FALSE, success |-> FALSE, call_id |-> NullStr,
   access_token |-> NullStr, error |-> NullStr]

NoSessionData ==
  [present |-> FALSE, callId |-> NullStr, callDuration |-> NullStr, duration |-> 0,
   transcript |-> NullStr]

\* useState initial values (variant A lines 22-36, variant B lines 668-687)
InitialState ==
  [currentState |-> "landing", founderName |-> EmptyStr, driveLink |-> EmptyStr,
   pitchDeckText |-> EmptyStr, processedDeckData |-> Null,
   retellSessionData |-> NoSessionResponse, sessionData |-> NoSessionData,
   error |-> NullStr, isMuted |-> FALSE, isOnCall |-> FALSE, callTime |-> 0,
   isStartingCall |-> FALSE, startTime |-> 0, callDuration |-> 0]

\* useRef initial values (variant A lines 40-43, variant B lines 690-693)
InitialRef ==
  [callTimerRef |-> 0, retellClientRef |-> 0, callIdRef |-> NullStr,
   apiCallMadeRef |-> FALSE]

\* What a closure created in the current render reads later: the state
\* variables its body mentions after an await or inside an event listener.
Capture ==
  [callTime |-> state.callTime, startTime |-> state.startTime,
   founderName |-> state.founderName, pitchDeckText |-> state.pitchDeckText]

\* The listeners registered on a client read callTime, startTime and
\* founderName of the render their start-call ran in.
ListenerCapture(cap) == [cap EXCEPT !.pitchDeckText = EmptyStr]

NoCapture ==
  [callTime |-> 0, startTime |-> 0, founderName |-> EmptyStr, pitchDeckText |-> EmptyStr]

NoRequest == [call_id |-> NullStr, call_duration |-> NullStr]

\* the call ids a session-creation response can carry
CallIds == {CallIdOf(n) : n \in 1..(MaxClients + 1)}
NoTranscriptRequests == [id \in CallIds |-> 0]

\* One async invocation in flight: the function, the await it is suspended
\* at, its closure, the apiCallWithRetry frame it is in (if any), the client
\* and the locals it still needs.
Task(fn, pc, cap, r, client, request, seconds) ==
  [fn |-> fn, pc |-> pc, cap |-> cap, r |-> r, client |-> client,
   request |-> request, seconds |-> seconds]

RemoveAt(seq, i) == SubSeq(seq, 1, i - 1) \o SubSeq(seq, i + 1, Len(seq))

\* ----------------------------------------------- "R": apiCallWithRetry alone
\* The configurations a caller can pass: each field given or left out.
RetryConfigs ==
  { [f \in fields |-> cfg[f]] :
      fields \in SUBSET {"maxAttempts", "baseDelay", "maxDelay", "backoffMultiplier"},
      cfg \in [maxAttempts : (-1)..MaxAttemptsBound, baseDelay : {2000},
               maxDelay : {3000}, backoffMultiplier : {1, 3}] }

\* How one invocation of the operation can settle.
OperationOutcomes ==
  {Resolved([type |-> "value", id |-> "v1", message |-> <<"ok">>]),
   Rejected(ErrorObj("e1", <<"first">>)),
   Rejected(ErrorObj("e2", <<"second">>)),
   Rejected(ThrownString(<<"thrown text">>))}

InitRetry ==
  /\ impl = "R"
  /\ state = InitialState
  /\ ref = InitialRef
  /\ \E config \in RetryConfigs :
       tasks = <<Task("apiCallWithRetry", "retry", NoCapture, RetryBegin(config), 0,
                      NoRequest, 0)>>
  /\ clients = <<>>
  /\ timers = {}
  /\ now = 1
  /\ transcriptRequests = NoTranscriptRequests
  /\ opLog = <<>>

\* "R": the awaited apiCall() settles (lines 25-47)
OperationSettles ==
  /\ impl = "R"
  /\ tasks[1].r.phase = "invoking"
  /\ \E outcome \in OperationOutcomes :
       /\ tasks' = [tasks EXCEPT ![1].r = RetrySettle(@, outcome)]
       /\ opLog' = Append(opLog, outcome)
  /\ UNCHANGED <<impl, state, ref, clients, timers, now, transcriptRequests>>

\* The setTimeout of a backoff wait fires (line 46) and the loop goes round:
\* the operation is invoked again.
BackoffElapsed ==
  /\ \E i \in DOMAIN tasks :
       /\ tasks[i].r.phase = "waiting"
       /\ tasks' = [tasks EXCEPT ![i].r = RetryWake(@)]
  /\ UNCHANGED <<impl, state, ref, clients, timers, now, transcriptRequests, opLog>>

\* ------------------------------------------------- the two App components
InitApp ==
  /\ impl \in {"A", "B"}
  /\ state = InitialState
  /\ ref = InitialRef
  /\ tasks = <<>>
  /\ clients = <<>>
  /\ timers = {}
  /\ now = 1
  /\ transcriptRequests = NoTranscriptRequests
  /\ opLog = <<>>

IsApp == impl \in {"A", "B"}

\* After its unmount the component is "UA" / "UB": nothing is rendered or
\* clicked any more and React ignores the state setters, while the async
\* functions in flight and the listeners of its connections go on running.
Variant == IF impl = "UA" THEN "A" ELSE IF impl = "UB" THEN "B" ELSE impl
SetState(st) == IF IsApp THEN st ELSE state

\* Clients are created by start-call invocations.  A behaviour creates at most
\* MaxClients of them: a start is offered only while the clients already created
\* and the starts in flight leave room, and a new session is begun only while
\* a call can still be started in it.
StartsInFlight ==
  Cardinality({i \in DOMAIN tasks : tasks[i].fn \in {"startCall", "startPracticeCall"}
                                      /\ tasks[i].pc \in {"mic", "session"}})

RoomForClient == Len(clients) + StartsInFlight < MaxClients

\* The landing form is rendered only in the landing stage.  Its two inputs
\* (onChange: setFounderName, setDriveLink; A lines 362 and 378, B lines 1113
\* and 1132) hold what the user typed when the submit button is pressed: the
\* typing is part of the submit step.  The button carries
\* disabled={!founderName.trim()}.
LandingShown == IsApp /\ state.currentState = "landing"
SubmitEnabled(name) == LandingShown /\ Trim(name) # EmptyStr /\ RoomForClient
Typed(name, link) == [state EXCEPT !.founderName = name, !.driveLink = link]

\* One second passes: Date.now() advances and every running setInterval
\* callback runs once, setCallTime(prev => prev + 1).  The clock is observed
\* only between call_started and the end of a call, so it is advanced only
\* while an interval runs.
TimePasses ==
  /\ IsApp
  /\ timers # {}
  /\ now <= MaxTime
  /\ now' = now + 1
  /\ state' = [state EXCEPT !.callTime = @ + Cardinality(timers)]
  /\ UNCHANGED <<impl, ref, tasks, clients, timers, transcriptRequests, opLog>>

\* setTimeout(() => setCurrentState('ready'), 500) fires (A line 116, B line 760)
ReadyTimeout ==
  /\ \E i \in DOMAIN tasks :
       /\ tasks[i].pc = "readyTimeout"
       /\ tasks' = RemoveAt(tasks, i)
  /\ state' = [state EXCEPT !.currentState = "ready"]
  /\ UNCHANGED <<impl, ref, clients, timers, now, transcriptRequests, opLog>>

\* ------------------------------------------------------ variant B: the deck
NoDeckTextSet == EmptyStr
NoDeckSentinel ==
  <<"No pitch deck provided - the AI investor will ask general startup questions.">>

\* handleSubmitLink up to its await (B lines 709-738)
handleSubmitLinkFrom(names, links) ==
  /\ impl = "B"
  /\ \E name \in names, link \in links :
       /\ SubmitEnabled(name)
       /\ LET st == Typed(name, link) IN
          IF Trim(st.founderName) = EmptyStr
          THEN /\ state' = [st EXCEPT !.error = <<"Please enter your name">>]
               /\ tasks' = tasks
          ELSE IF Trim(st.driveLink) = EmptyStr
          THEN /\ state' = [st EXCEPT !.error = NullStr, !.pitchDeckText = NoDeckSentinel,
                                      !.currentState = "ready"]
               /\ tasks' = tasks
          ELSE IF ~validateGoogleDriveLink(st.driveLink)
          THEN /\ state' = [st EXCEPT !.error =
                 <<"Please enter a valid Google Drive link (drive.google.com or docs.google.com)">>]
               /\ tasks' = tasks
          ELSE /\ state' = [st EXCEPT !.error = NullStr, !.currentState = "processing"]
               \* processAiropsDeck is called directly: one request, no retry frame
               /\ tasks' = Append(tasks, Task("handleSubmitLink", "deck", NoCapture,
                                    [NoRetry EXCEPT !.invocations = 1], 0, NoRequest, 0))
  /\ UNCHANGED <<impl, ref, clients, timers, now, transcriptRequests, opLog>>

handleSubmitLink == handleSubmitLinkFrom(NameInputs, LinkInputs)

\* handleSubmitLink after "await processAiropsDeck(...)" (B lines 740-771)
SubmitLinkDeckSettles ==
  /\ impl = "B"
  /\ \E i \in DOMAIN tasks, net \in DeckNetOutcomes :
       /\ tasks[i].fn = "handleSubmitLink" /\ tasks[i].pc = "deck"
       /\ LET result == processAiropsDeck(net).value IN
          IF ~result.success \/ Truthy(result.error)
          THEN \* throw new Error(result.error || 'Failed to process deck'), caught
               /\ state' = [state EXCEPT
                    !.error = <<"Processing failed: ">> \o
                              (IF Truthy(result.error) THEN result.error
                               ELSE <<"Failed to process deck">>),
                    !.currentState = "landing"]
               /\ tasks' = RemoveAt(tasks, i)
          ELSE \* result.outputs.pitch_text is truthy on every success
               /\ state' = [state EXCEPT !.processedDeckData = "result",
                                         !.pitchDeckText = result.pitch_text]
               /\ tasks' = [tasks EXCEPT ![i].pc = "readyTimeout"]
  /\ UNCHANGED <<impl, ref, clients, timers, now, transcriptRequests, opLog>>

\* ------------------------------------------------------ RetellWebClient
\* The SDK is not part of the repository: a client is modelled by the events
\* it can emit and by how its promises settle.
\*   phase "connecting": startCall() was invoked, nothing has happened yet
\*         "failed":     the call never started (error while connecting, or
\*                       the startCall promise rejected)
\*         "active":     the call has started
\*         "over":       the call has ended (call_ended / disconnect emitted)
\* Each client emits started, ended and error at most once, and no error
\* once stopCall() was invoked on it.  cap is the
\* closure of the listeners registered on it.  The startCall() promise is
\* pending until the call starts (it resolves) or fails to (it rejects).
NewClient(cap) ==
  [cap |-> cap, promise |-> "pending", phase |-> "connecting", errored |-> FALSE,
   stopped |-> FALSE, muted |-> FALSE]

\* A client whose call is over emits nothing more and none of its promises is
\* pending: what is left of it is the fact that it was created.
SpentClient ==
  [cap |-> NoCapture, promise |-> "settled", phase |-> "over", errored |-> FALSE,
   stopped |-> FALSE, muted |-> FALSE]

\* The mute status of the connection outlasts its call.
Spent(client) == [SpentClient EXCEPT !.muted = client.muted]

ClientIds == DOMAIN clients

\* A client that can emit nothing more and has no pending promise is spent.
Settle(client) ==
  IF client.phase \in {"over", "failed"} /\ client.promise = "settled"
  THEN Spent(client) ELSE client

\* retellClientRef.current.stopCall() on the client the ref holds; stopping
\* a client whose call is over changes nothing
StopCalled(cs, c) ==
  IF c = 0 \/ cs[c].phase \in {"over", "failed"} THEN cs ELSE [cs EXCEPT ![c].stopped = TRUE]

\* clearInterval(callTimerRef.current)
ClearInterval(ts, id) == ts \ {id}

\* ------------------------------------------------- variant B: starting a call
\* startPracticeCall up to "await getUserMedia" (B lines 786-805); the button
\* is rendered in the ready stage with disabled={isStartingCall}.
startPracticeCall ==
  /\ impl = "B"
  /\ state.currentState = "ready"
  /\ ~state.isStartingCall
  /\ RoomForClient
  /\ \E hasMediaDevices \in BOOLEAN :
       IF ~hasMediaDevices
       THEN \* throw new Error('Browser audio unsupported'), caught at line 895
            /\ state' = [state EXCEPT !.error = <<"Browser audio unsupported">>,
                                      !.isStartingCall = FALSE]
            /\ tasks' = tasks
       ELSE /\ state' = [state EXCEPT !.error = NullStr, !.isStartingCall = TRUE]
            /\ tasks' = Append(tasks, Task("startPracticeCall", "mic", Capture, NoRetry,
                                           0, NoRequest, 0))
  /\ UNCHANGED <<impl, ref, clients, timers, now, transcriptRequests, opLog>>

\* getUserMedia settles (B lines 804-823): denied is rethrown and caught;
\* granted goes on to apiCallWithRetry(createRetellSession, {3, 1000}).
MicrophoneSettles ==
  /\ Variant = "B"
  /\ \E i \in DOMAIN tasks, granted \in BOOLEAN :
       /\ tasks[i].fn = "startPracticeCall" /\ tasks[i].pc = "mic"
       /\ IF ~granted
          THEN /\ state' = SetState([state EXCEPT
                    !.error = <<"Please enable your microphone to continue">>,
                    !.isStartingCall = FALSE])
               /\ tasks' = RemoveAt(tasks, i)
          ELSE /\ state' = SetState(state)
               /\ tasks' = [tasks EXCEPT
                    ![i].pc = "session",
                    ![i].r = RetryBegin([maxAttempts |-> SessionMaxAttempts,
                                         baseDelay |-> 1000])]
  /\ UNCHANGED <<impl, ref, clients, timers, now, transcriptRequests, opLog>>

\* The catch block of startPracticeCall (B lines 895-903)
StartPracticeCallCatch(st, message) ==
  [st EXCEPT !.error = message, !.isStartingCall = FALSE]

\* One createRetellSession request of startPracticeCall settles and
\* apiCallWithRetry goes on; on its return the session is checked, the client
\* is created, the listeners are registered and client.startCall() is invoked
\* (B lines 820-893).
PracticeSessionSettles ==
  /\ Variant = "B"
  /\ \E i \in DOMAIN tasks, net \in SessionNetOutcomes(Len(clients) + 1) :
       /\ tasks[i].fn = "startPracticeCall" /\ tasks[i].pc = "session"
       /\ tasks[i].r.phase = "invoking"
       /\ LET r == RetrySettle(tasks[i].r, createRetellSession(net))
              sessionResponse == r.result
          IN
          IF r.phase = "waiting"
          THEN /\ tasks' = [tasks EXCEPT ![i].r = r]
               /\ UNCHANGED <<state, ref, clients>>
          ELSE IF r.phase = "thrown"
          THEN /\ state' = SetState(StartPracticeCallCatch(state, r.thrown.message))
               /\ tasks' = RemoveAt(tasks, i)
               /\ UNCHANGED <<ref, clients>>
          ELSE IF ~sessionResponse.success \/ ~Truthy(sessionResponse.access_token)
          THEN /\ state' = SetState(StartPracticeCallCatch(state,
                    IF Truthy(sessionResponse.error) THEN sessionResponse.error
                    ELSE <<"Failed to create voice session">>))
               /\ tasks' = RemoveAt(tasks, i)
               /\ UNCHANGED <<ref, clients>>
          ELSE /\ ref' = [ref EXCEPT !.callIdRef = sessionResponse.call_id,
                                     !.retellClientRef = Len(clients) + 1]
               /\ state' = SetState([state EXCEPT !.retellSessionData =
                    [present |-> TRUE, success |-> TRUE,
                     call_id |-> sessionResponse.call_id,
                     access_token |-> sessionResponse.access_token,
                     error |-> sessionResponse.error]])
               /\ clients' = Append(clients, NewClient(ListenerCapture(tasks[i].cap)))
               /\ tasks' = RemoveAt(tasks, i)
  /\ UNCHANGED <<impl, timers, now, transcriptRequests, opLog>>

\* client.startCall() rejects: the .catch of B lines 889-893
PracticeStartCallRejects ==
  /\ Variant = "B"
  /\ \E c \in ClientIds :
       /\ clients[c].promise = "pending"
       /\ clients[c].phase \in {"connecting", "failed"}
       /\ clients' = [clients EXCEPT ![c] = Spent(@)]
  /\ state' = SetState([state EXCEPT !.error = <<"Failed to start call. Please try again.">>,
                            !.isStartingCall = FALSE])
  /\ UNCHANGED <<impl, ref, tasks, timers, now, transcriptRequests, opLog>>

\* ------------------------------------------- variant B: the call's events
UserEmail == <<"user@example.com">>

\* the 'call_started' listener (B lines 850-868); the event may carry the
\* provider's identifier of the call
PracticeCallStarted ==
  /\ Variant = "B"
  /\ \E c \in ClientIds : \E eventCallId \in {UndefinedStr, CallIdOf(c)} :
       /\ clients[c].phase = "connecting"
       /\ ~clients[c].stopped
       /\ clients' = [clients EXCEPT ![c].phase = "active", ![c].promise = "settled"]
       /\ state' = SetState([state EXCEPT !.isOnCall = TRUE, !.callTime = 0, !.startTime = now,
                                 !.isStartingCall = FALSE, !.currentState = "calling"])
       /\ ref' = [ref EXCEPT
            !.apiCallMadeRef = FALSE,
            !.callIdRef = IF Truthy(eventCallId) THEN eventCallId ELSE @,
            !.callTimerRef = c]
       /\ timers' = timers \cup {c}
  /\ UNCHANGED <<impl, tasks, now, transcriptRequests, opLog>>

\* handleCallEnded up to its await (B lines 906-944), with the closure cap of
\* the listener that calls it
handleCallEnded(cap) ==
  LET call_id == ref.callIdRef
      execTime == IF cap.startTime # 0 THEN now - cap.startTime ELSE cap.callTime
      finalDurationSeconds == execTime
      request == [call_id |-> call_id, call_duration |-> formatTime(finalDurationSeconds)]
  IN
  IF ~Truthy(call_id) \/ ref.apiCallMadeRef
  THEN /\ state' = [state EXCEPT !.isOnCall = FALSE, !.currentState = "summary"]
       /\ UNCHANGED <<ref, tasks, transcriptRequests>>
  ELSE /\ state' = [state EXCEPT !.isOnCall = FALSE, !.callDuration = finalDurationSeconds]
       /\ ref' = [ref EXCEPT !.apiCallMadeRef = TRUE]
       /\ tasks' = Append(tasks,
            Task("handleCallEnded", "transcript", cap,
                 RetryBegin([maxAttempts |-> TranscriptMaxAttempts, baseDelay |-> 1000]),
                 0, request, finalDurationSeconds))
       /\ transcriptRequests' = [transcriptRequests EXCEPT ![call_id] = @ + 1]

\* the 'call_ended' listener (B lines 870-873)
PracticeCallEnded ==
  /\ impl = "B"
  /\ \E c \in ClientIds :
       /\ clients[c].phase = "active"
       /\ clients' = [clients EXCEPT ![c] = Spent(@)]
       /\ handleCallEnded(clients[c].cap)
  /\ UNCHANGED <<impl, timers, now, opLog>>

\* One getCallTranscript request of handleCallEnded settles and
\* apiCallWithRetry goes on; on its return or throw the session data is
\* stored, the timer cleared and the summary shown (B lines 941-974).
CallEndedTranscriptSettles ==
  /\ impl = "B"
  /\ \E i \in DOMAIN tasks :
       /\ tasks[i].fn = "handleCallEnded" /\ tasks[i].pc = "transcript"
       /\ tasks[i].r.phase = "invoking"
       /\ \E net \in TranscriptNetOutcomes(tasks[i].request) :
            LET r == RetrySettle(tasks[i].r, getCallTranscript(tasks[i].request, net))
                transcript ==
                  IF r.phase = "returned" THEN r.result.transcript
                  ELSE <<"Session completed with ">> \o tasks[i].cap.founderName
                         \o <<". Call ID: ">> \o tasks[i].request.call_id
            IN
            IF r.phase = "waiting"
            THEN /\ tasks' = [tasks EXCEPT ![i].r = r]
                 /\ UNCHANGED <<state, ref, timers>>
            ELSE /\ state' = [state EXCEPT
                      !.sessionData = [NoSessionData EXCEPT
                          !.present = TRUE, !.transcript = transcript,
                          !.duration = tasks[i].seconds],
                      !.currentState = "summary"]
                 /\ timers' = IF ref.callTimerRef # 0
                              THEN ClearInterval(timers, ref.callTimerRef) ELSE timers
                 /\ ref' = [ref EXCEPT !.callTimerRef = 0]
                 /\ tasks' = RemoveAt(tasks, i)
  /\ UNCHANGED <<impl, clients, now, transcriptRequests, opLog>>

\* the 'call_error' listener (B lines 875-880)
PracticeCallError ==
  /\ impl = "B"
  /\ \E c \in ClientIds :
       /\ clients[c].phase \in {"connecting", "active"}
       /\ ~clients[c].errored /\ ~clients[c].stopped
       /\ clients' = [clients EXCEPT
            ![c].errored = TRUE,
            ![c].phase = IF @ = "connecting" THEN "failed" ELSE @]
  /\ state' = [state EXCEPT !.error = <<"Call error occurred. Please try again.">>,
                            !.isStartingCall = FALSE, !.currentState = "ready"]
  /\ UNCHANGED <<impl, ref, tasks, timers, now, transcriptRequests, opLog>>

\* endCall of variant B (lines 983-996): the button of the calling stage; the
\* await of stopCall() is followed by nothing.
PracticeEndCall ==
  /\ impl = "B"
  /\ state.currentState = "calling"
  /\ ref.retellClientRef # 0
  /\ clients' = StopCalled(clients, ref.retellClientRef)
  /\ clients' # clients
  /\ UNCHANGED <<impl, state, ref, tasks, timers, now, transcriptRequests, opLog>>

\* resetApp (B lines 998-1038): the button of the summary view, which is
\* rendered when currentState === 'summary' && sessionData
resetApp ==
  /\ impl = "B"
  /\ state.currentState = "summary"
  /\ state.sessionData.present
  /\ clients' = StopCalled(clients, ref.retellClientRef)
  /\ timers' = IF ref.callTimerRef # 0 THEN ClearInterval(timers, ref.callTimerRef)
               ELSE timers
  /\ state' = InitialState
  /\ ref' = InitialRef
  /\ UNCHANGED <<impl, tasks, now, transcriptRequests, opLog>>

\* ------------------------------------------------------ variant A: the deck
\* variation: the deck is processed whatever the link is
DeckLinkGivenAlways(link) == TRUE

\* "if (driveLink)" (A line 66): the empty string is the only falsy string
DeckLinkGiven(link) == link # EmptyStr

\* handleStart up to the await inside processPitchDeck (A lines 53-92)
handleStartFrom(names, links) ==
  /\ impl = "A"
  /\ \E name \in names, link \in links :
       /\ SubmitEnabled(name)
       /\ LET st == Typed(name, link) IN
          IF Trim(st.founderName) = EmptyStr
          THEN /\ state' = [st EXCEPT !.error = <<"Please enter your name.">>]
               /\ tasks' = tasks
          ELSE IF st.driveLink # EmptyStr /\ ~isValidDriveLink(st.driveLink)
          THEN /\ state' = [st EXCEPT !.error =
                    <<"Please enter a valid Google Drive link or leave it empty.">>]
               /\ tasks' = tasks
          ELSE IF DeckLinkGiven(st.driveLink)
          THEN /\ state' = [st EXCEPT !.error = NullStr, !.currentState = "processing"]
               /\ tasks' = Append(tasks, Task("processPitchDeck", "deck", NoCapture,
                                    RetryBegin([maxAttempts |-> DeckMaxAttempts]), 0,
                                    NoRequest, 0))
          ELSE /\ state' = [st EXCEPT !.error = NullStr, !.currentState = "ready"]
               /\ tasks' = tasks
  /\ UNCHANGED <<impl, ref, clients, timers, now, transcriptRequests, opLog>>

handleStart == handleStartFrom(NameInputs, LinkInputs)

\* variation: the failure is reported and the stage is left as it is
ProcessPitchDeckCatchStays(st, errorMessage) == [st EXCEPT !.error = errorMessage]

\* The catch block of processPitchDeck (A lines 120-136)
ProcessPitchDeckCatch(st, errorMessage) ==
  [st EXCEPT
     !.error =
        IF Includes(errorMessage, "API key")
        THEN <<"Server configuration error: API key issue. Please contact support.">>
        ELSE IF Includes(errorMessage, "access") \/ Includes(errorMessage, "permission")
        THEN <<"The pitch deck file may not be publicly accessible. Please ensure the Google Drive file is shared with \"Anyone with the link\".">>
        ELSE <<"Failed to process deck: ">> \o errorMessage
               \o <<". Please try a different file or format.">>,
     !.currentState = "landing"]

\* One processAiropsDeck request of processPitchDeck settles and
\* apiCallWithRetry goes on; on its return the response is checked
\* (A lines 89-136).
ProcessPitchDeckSettles ==
  /\ impl = "A"
  /\ \E i \in DOMAIN tasks, net \in DeckNetOutcomes :
       /\ tasks[i].fn = "processPitchDeck" /\ tasks[i].pc = "deck"
       /\ tasks[i].r.phase = "invoking"
       /\ LET r == RetrySettle(tasks[i].r, processAiropsDeck(net))
              response == r.result
          IN
          IF r.phase = "waiting"
          THEN /\ tasks' = [tasks EXCEPT ![i].r = r]
               /\ state' = state
          ELSE IF r.phase = "thrown"
          THEN /\ state' = ProcessPitchDeckCatch(state, r.thrown.message)
               /\ tasks' = RemoveAt(tasks, i)
          ELSE IF ~response.success
          THEN /\ state' = ProcessPitchDeckCatch(state,
                    IF Truthy(response.error) THEN response.error
                    ELSE <<"Failed to process pitch deck">>)
               /\ tasks' = RemoveAt(tasks, i)
          ELSE IF ~response.hasOutputs \/ ~Truthy(response.pitch_text)
          THEN /\ state' = ProcessPitchDeckCatch(state,
                    <<"Invalid response format from pitch deck processing">>)
               /\ tasks' = RemoveAt(tasks, i)
          ELSE /\ state' = [state EXCEPT !.pitchDeckText = response.pitch_text,
                                         !.processedDeckData = "data"]
               /\ tasks' = [tasks EXCEPT ![i].pc = "readyTimeout", ![i].r = r]
  /\ UNCHANGED <<impl, ref, clients, timers, now, transcriptRequests, opLog>>

\* ------------------------------------------------- variant A: starting a call
\* startCall up to its first await (A lines 140-155); the button is rendered
\* in the ready stage with disabled={isStartingCall}.
startCall ==
  /\ impl = "A"
  /\ state.currentState = "ready"
  /\ ~state.isStartingCall
  /\ RoomForClient
  /\ state' = [state EXCEPT !.isStartingCall = TRUE, !.error = NullStr]
  /\ tasks' = Append(tasks, Task("startCall", "session", Capture,
                                 RetryBegin([maxAttempts |-> SessionMaxAttempts]), 0,
                                 NoRequest, 0))
  /\ UNCHANGED <<impl, ref, clients, timers, now, transcriptRequests, opLog>>

\* The catch block of startCall (A lines 191-196)
StartCallCatch(st, message) == [st EXCEPT !.error = message, !.isStartingCall = FALSE]

\* One createRetellSession request of startCall settles and apiCallWithRetry
\* goes on; on its return the client is created, the listeners are registered
\* and "await retellClient.startCall(...)" suspends (A lines 152-180).
StartCallSessionSettles ==
  /\ Variant = "A"
  /\ \E i \in DOMAIN tasks, net \in SessionNetOutcomes(Len(clients) + 1) :
       /\ tasks[i].fn = "startCall" /\ tasks[i].pc = "session"
       /\ tasks[i].r.phase = "invoking"
       /\ LET r == RetrySettle(tasks[i].r, createRetellSession(net))
              sessionResponse == r.result
          IN
          IF r.phase = "waiting"
          THEN /\ tasks' = [tasks EXCEPT ![i].r = r]
               /\ UNCHANGED <<state, ref, clients>>
          ELSE IF r.phase = "thrown"
          THEN /\ state' = SetState(StartCallCatch(state, r.thrown.message))
               /\ tasks' = RemoveAt(tasks, i)
               /\ UNCHANGED <<ref, clients>>
          ELSE IF ~sessionResponse.success
          THEN /\ state' = SetState(StartCallCatch(state,
                    IF Truthy(sessionResponse.error) THEN sessionResponse.error
                    ELSE <<"Failed to create call session">>))
               /\ tasks' = RemoveAt(tasks, i)
               /\ UNCHANGED <<ref, clients>>
          ELSE /\ state' = SetState([state EXCEPT !.retellSessionData =
                    [present |-> TRUE, success |-> TRUE,
                     call_id |-> sessionResponse.call_id,
                     access_token |-> sessionResponse.access_token,
                     error |-> sessionResponse.error]])
               /\ ref' = [ref EXCEPT !.callIdRef = sessionResponse.call_id,
                                     !.retellClientRef = Len(clients) + 1]
               /\ clients' = Append(clients, NewClient(ListenerCapture(tasks[i].cap)))
               /\ tasks' = [tasks EXCEPT ![i].pc = "startCall", ![i].r = NoRetry,
                                         ![i].client = Len(clients) + 1]
  /\ UNCHANGED <<impl, timers, now, transcriptRequests, opLog>>

\* startCallTimer (A lines 200-205) follows setIsOnCall(true) and
\* setCurrentState('calling') when "await retellClient.startCall(...)" resolves
\* (A lines 182-189).  The SDK resolves the promise when the call has started,
\* and may resolve it as well after it reported a failure through 'error'.
StartCallResolves ==
  /\ Variant = "A"
  /\ \E i \in DOMAIN tasks :
       /\ tasks[i].fn = "startCall" /\ tasks[i].pc = "startCall"
       /\ LET c == tasks[i].client IN
          /\ clients' = [clients EXCEPT ![c] = Settle([@ EXCEPT
                 !.promise = "settled",
                 !.phase = IF @ = "connecting"
                           THEN (IF clients[c].stopped THEN "failed" ELSE "active")
                           ELSE @])]
          /\ state' = SetState([state EXCEPT !.isOnCall = TRUE, !.currentState = "calling",
                                    !.callTime = 0])
          /\ ref' = [ref EXCEPT !.callTimerRef = c]
          /\ timers' = timers \cup {c}
       /\ tasks' = RemoveAt(tasks, i)
  /\ UNCHANGED <<impl, now, transcriptRequests, opLog>>

\* "await retellClient.startCall(...)" rejects: the catch of A lines 191-196
StartCallRejects ==
  /\ Variant = "A"
  /\ \E i \in DOMAIN tasks :
       /\ tasks[i].fn = "startCall" /\ tasks[i].pc = "startCall"
       /\ clients[tasks[i].client].phase \in {"connecting", "failed"}
       /\ clients' = [clients EXCEPT ![tasks[i].client] = Spent(@)]
       /\ tasks' = RemoveAt(tasks, i)
  /\ state' = SetState(StartCallCatch(state, <<"Error starting call">>))
  /\ UNCHANGED <<impl, ref, timers, now, transcriptRequests, opLog>>

\* ------------------------------------------------- variant A: ending a call
\* endCall is run by the End Call button and by the two listeners; a task
\* inside endCall is named after what started it.
EndCallers == {"endCall", "handleCallDisconnected", "handleRetellError"}
EndCallsInFlight == Cardinality({i \in DOMAIN tasks : tasks[i].fn \in EndCallers})

\* endCall from "Reset call state" to the await of the transcript, or to the
\* summary when there is no call id (A lines 258-290).  st, rf and rest are
\* the state, the refs and the other tasks as the caller leaves them.
EndCallAfterStop(st, rf, rest, cap, caller) ==
  LET duration == formatCallTime(cap.callTime)
      st2 == [st EXCEPT !.isOnCall = FALSE, !.isMuted = FALSE]
      request == [call_id |-> rf.callIdRef, call_duration |-> duration]
  IN
  IF Truthy(rf.callIdRef)
  THEN /\ state' = st2
       /\ tasks' = Append(rest, Task(caller, "transcript", cap,
                            RetryBegin([maxAttempts |-> TranscriptMaxAttempts]),
                            0, request, 0))
       /\ transcriptRequests' = [transcriptRequests EXCEPT ![rf.callIdRef] = @ + 1]
  ELSE /\ state' = [st2 EXCEPT !.currentState = "summary"]
       /\ tasks' = rest
       /\ transcriptRequests' = transcriptRequests

\* endCall up to its first await (A lines 240-257), run with the closure cap
\* after the caller has changed the state to st: the timer the ref names is
\* cleared, and stopCall() is awaited when the ref holds a client.
endCall(st, cap, caller) ==
  LET rf == [ref EXCEPT !.callTimerRef = 0] IN
  /\ timers' = IF ref.callTimerRef # 0 THEN ClearInterval(timers, ref.callTimerRef)
               ELSE timers
  /\ ref' = rf
  /\ IF ref.retellClientRef # 0
     THEN /\ state' = st
          /\ tasks' = Append(tasks, Task(caller, "stopCall", cap, NoRetry,
                                         ref.retellClientRef, NoRequest, 0))
          /\ transcriptRequests' = transcriptRequests
     ELSE EndCallAfterStop(st, rf, tasks, cap, caller)

\* The End Call button of the calling stage (A line 552) runs the endCall of
\* the current render.
EndCallClicked ==
  /\ impl = "A"
  /\ state.currentState = "calling"
  /\ EndCallsInFlight < MaxEndCalls
  /\ endCall(state, Capture, "endCall")
  /\ clients' = StopCalled(clients, ref.retellClientRef)
  /\ UNCHANGED <<impl, now, opLog>>

\* handleCallDisconnected (A lines 227-230): the 'disconnect' listener of a
\* client runs the endCall of the render its startCall ran in.
handleCallDisconnected ==
  /\ impl = "A"
  /\ \E c \in ClientIds :
       /\ clients[c].phase = "active"
       /\ endCall(state, clients[c].cap, "handleCallDisconnected")
       /\ clients' = [StopCalled(clients, ref.retellClientRef) EXCEPT ![c] = Spent(@)]
  /\ UNCHANGED <<impl, now, opLog>>

\* handleRetellError (A lines 233-237): the 'error' listener of a client
handleRetellError ==
  /\ impl = "A"
  /\ \E c \in ClientIds :
       /\ clients[c].phase \in {"connecting", "active"}
       /\ ~clients[c].errored /\ ~clients[c].stopped
       /\ endCall([state EXCEPT !.error = <<"Call error: ", "provider error">>],
                  clients[c].cap, "handleRetellError")
       /\ clients' = [StopCalled(clients, ref.retellClientRef) EXCEPT
            ![c] = [@ EXCEPT !.errored = TRUE,
                             !.phase = IF @ = "connecting" THEN "failed" ELSE @]]
  /\ UNCHANGED <<impl, now, opLog>>

\* "await retellClientRef.current.stopCall()" settles; a rejection is caught
\* and logged, so either way endCall goes on at A line 255.
EndCallStopSettles ==
  /\ impl = "A"
  /\ \E i \in DOMAIN tasks :
       /\ tasks[i].fn \in EndCallers /\ tasks[i].pc = "stopCall"
       /\ ref' = [ref EXCEPT !.retellClientRef = 0]
       /\ EndCallAfterStop(state, ref, RemoveAt(tasks, i), tasks[i].cap, tasks[i].fn)
  /\ UNCHANGED <<impl, clients, timers, now, opLog>>

\* One getCallTranscript request of endCall settles and apiCallWithRetry goes
\* on; on its return the session data is stored and the summary shown, on its
\* throw the catch shows the summary as well (A lines 274-299).
EndCallTranscriptSettles ==
  /\ impl = "A"
  /\ \E i \in DOMAIN tasks :
       /\ tasks[i].fn \in EndCallers /\ tasks[i].pc = "transcript"
       /\ tasks[i].r.phase = "invoking"
       /\ \E net \in TranscriptNetOutcomes(tasks[i].request) :
            LET r == RetrySettle(tasks[i].r, getCallTranscript(tasks[i].request, net)) IN
            IF r.phase = "waiting"
            THEN /\ tasks' = [tasks EXCEPT ![i].r = r]
                 /\ state' = state
            ELSE IF r.phase = "thrown"
            THEN /\ state' = [state EXCEPT !.error = r.thrown.message,
                                           !.currentState = "summary"]
                 /\ tasks' = RemoveAt(tasks, i)
            ELSE /\ state' = [state EXCEPT
                      !.sessionData = [NoSessionData EXCEPT
                          !.present = TRUE, !.callId = ref.callIdRef,
                          !.callDuration = tasks[i].request.call_duration,
                          !.transcript = r.result.transcript],
                      !.currentState = "summary"]
                 /\ tasks' = RemoveAt(tasks, i)
  /\ UNCHANGED <<impl, ref, clients, timers, now, transcriptRequests, opLog>>

\* reset (A lines 303-319): the button of the summary stage (A line 614).  It
\* neither clears the interval nor stops the client.
reset ==
  /\ impl = "A"
  /\ state.currentState = "summary"
  /\ state' = InitialState
  /\ ref' = [ref EXCEPT !.callIdRef = NullStr, !.apiCallMadeRef = FALSE]
  /\ UNCHANGED <<impl, tasks, clients, timers, now, transcriptRequests, opLog>>

\* ------------------------------------------------- the backend (part_003)
\* A string of n characters.
Chars(n) == [i \in 1..n |-> "j"]

\* str.substring(0, end)
Substring(str, end) == SubSeq(str, 1, Min(end, Len(str)))

\* JSON.stringify(value): a parsed JSON value carries its serialization, a
\* string of characters.
Stringify(value) == value.json

\* What Airops can answer with: the fields the normalization looks at, absent
\* (undefined), empty or a text; results is the array (empty when absent).
ResultElement(p, t, c, n) ==
  [pitch_text |-> p, text |-> t, content |-> c, json |-> Chars(n)]

AiropsData(o, p, t, c, results, n) ==
  [outputs_pitch_text |-> o, pitch_text |-> p, text |-> t, content |-> c,
   results |-> results, json |-> Chars(n)]

FieldValues(text) == {UndefinedStr, EmptyStr, text}
JsonLengths == {2, FallbackLimit, FallbackLimit + 1}

AiropsResults ==
  {<<>>,
   <<ResultElement(<<"RP">>, <<"RT">>, UndefinedStr, 2)>>,
   <<ResultElement(UndefinedStr, <<"RT">>, <<"RC">>, 2)>>,
   <<ResultElement(EmptyStr, UndefinedStr, <<"RC">>, 2)>>,
   <<ResultElement(UndefinedStr, UndefinedStr, UndefinedStr, 3),
     ResultElement(<<"RP2">>, UndefinedStr, UndefinedStr, 2)>>}

AiropsPayloads ==
  {AiropsData(o, p, t, c, results, n) :
     o \in FieldValues(<<"O">>), p \in FieldValues(<<"P">>),
     t \in FieldValues(<<"T">>), c \in {UndefinedStr, <<"C">>},
     results \in AiropsResults, n \in JsonLengths}

NoApiKey == [kind |-> "nokey", ok |-> FALSE, body |-> <<>>]
AiropsOutcomes ==
  {NoApiKey, NetFailure, HttpError(<<"bad request">>)}
    \cup {HttpOk(data) : data \in AiropsPayloads}

FallbackPrefix == <<"Processed deck content: ">>

\* a || b on strings
OrElse(a, b) == IF Truthy(a) THEN a ELSE b

\* variation: the shapes are tried in another order (text before pitch_text)
DeckTextOfTextFirst(data) ==
  IF Truthy(data.outputs_pitch_text) THEN data.outputs_pitch_text
  ELSE IF Truthy(data.text) \/ Truthy(data.content)
  THEN OrElse(data.text, data.content)
  ELSE IF Truthy(data.pitch_text) THEN data.pitch_text
  ELSE IF Len(data.results) > 0
  THEN LET result == data.results[1] IN
       OrElse(result.pitch_text,
              OrElse(result.text, OrElse(result.content, Stringify(result))))
  ELSE FallbackPrefix \o Substring(Stringify(data), FallbackLimit)

\* The pitch_text the normalization of POST /api/process-deck picks (part_003
\* lines 174-227): cases 1 to 5 in the order of the if / else-if chain.
DeckTextOf(data) ==
  IF Truthy(data.outputs_pitch_text) THEN data.outputs_pitch_text
  ELSE IF Truthy(data.pitch_text) THEN data.pitch_text
  ELSE IF Truthy(data.text) \/ Truthy(data.content)
  THEN OrElse(data.text, data.content)
  ELSE IF Len(data.results) > 0
  THEN LET result == data.results[1] IN
       OrElse(result.pitch_text,
              OrElse(result.text, OrElse(result.content, Stringify(result))))
  ELSE FallbackPrefix \o Substring(Stringify(data), FallbackLimit)

\* POST /api/process-deck (part_003 lines 103-240): the answer sent for what
\* Airops answered.
processDeck(airops) ==
  IF airops.kind = "nokey"
  THEN [status |-> 500, success |-> FALSE, pitch_text |-> UndefinedStr,
        error |-> <<"Failed to process deck: ", "Airops API key is not configured">>]
  ELSE IF airops.kind = "reject"
  THEN [status |-> 500, success |-> FALSE, pitch_text |-> UndefinedStr,
        error |-> <<"Failed to process deck: ">> \o FetchFailedMessage]
  ELSE IF ~airops.ok
  THEN [status |-> 500, success |-> FALSE, pitch_text |-> UndefinedStr,
        error |-> <<"Failed to process deck: ", "Airops API error: ", "400", " - ">>
                     \o airops.body]
  ELSE [status |-> 200, success |-> TRUE, pitch_text |-> DeckTextOf(airops.body),
        error |-> UndefinedStr]

\* --- POST /api/get-transcript
Utterance(speaker, text) == [speaker |-> speaker, text |-> text]
Speakers == {"agent", "user", "system"}
UtteranceTexts == {<<"Hi">>, <<"Hello">>}
Utterances == {Utterance(sp, tx) : sp \in Speakers, tx \in UtteranceTexts}
UtteranceLists ==
  UNION {[1..n -> Utterances] : n \in 0..MaxUtterances}

\* variation: every turn is attributed to the investor
SpeakerLabelAlwaysInvestor(entry) == "Investor"

\* entry.speaker === 'agent' ? 'Investor' : 'Founder' (part_003 line 78)
SpeakerLabel(entry) == IF entry.speaker = "agent" THEN "Investor" ELSE "Founder"

\* `${speaker}: ${entry.text}` (part_003 line 79)
FormatEntry(entry) == <<SpeakerLabel(entry), ": ">> \o entry.text

\* data.transcript.map(...).join('\n\n') (part_003 lines 77-80)
RECURSIVE JoinEntries(_)
JoinEntries(entries) ==
  IF Len(entries) = 0 THEN <<>>
  ELSE IF Len(entries) = 1 THEN FormatEntry(entries[1])
  ELSE FormatEntry(entries[1]) \o <<"\n\n">> \o JoinEntries(Tail(entries))

CallMetadata(request) ==
  <<"\n\nCall Duration: ">> \o request.call_duration
    \o <<"\nCall ID: ">> \o request.call_id

\* The formatting of POST /api/get-transcript (part_003 lines 75-90)
FormatTranscript(request, entries) ==
  IF Len(entries) > 0
  THEN JoinEntries(entries) \o CallMetadata(request)
  ELSE <<"No transcript available yet for this call. The conversation is still being processed.">>
         \o CallMetadata(request)

TranscriptRequests ==
  {[call_id |-> CallIdOf(1), call_duration |-> formatTime(5)]}

RetellTranscriptOutcomes ==
  {NetFailure, HttpError(<<"not found">>)}
    \cup {HttpOk([transcript |-> entries]) : entries \in UtteranceLists}

\* POST /api/get-transcript (part_003 lines 51-101): the answer sent for what
\* the provider answered.
getTranscript(request, retell) ==
  IF retell.kind = "reject" \/ ~retell.ok
  THEN [status |-> 500, success |-> FALSE,
        transcript |-> <<"Error retrieving call transcript. Please try again later.">>
                         \o CallMetadata(request)]
  ELSE [status |-> 200, success |-> TRUE,
        transcript |-> FormatTranscript(request, retell.body.transcript)]

\* "S": the backend alone.  It keeps no state between requests; opLog holds
\* the latest request with its answer.
InitServer ==
  /\ impl = "S"
  /\ state = InitialState
  /\ ref = InitialRef
  /\ tasks = <<>>
  /\ clients = <<>>
  /\ timers = {}
  /\ now = 1
  /\ transcriptRequests = NoTranscriptRequests
  /\ opLog = <<>>

ProcessDeckRequest ==
  /\ impl = "S"
  /\ \E airops \in AiropsOutcomes :
       opLog' = <<[route |-> "process-deck", input |-> airops,
                   request |-> NoRequest, response |-> processDeck(airops)]>>
  /\ UNCHANGED <<impl, state, ref, tasks, clients, timers, now, transcriptRequests>>

GetTranscriptRequest ==
  /\ impl = "S"
  /\ \E request \in TranscriptRequests, retell \in RetellTranscriptOutcomes :
       opLog' = <<[route |-> "get-transcript", input |-> retell,
                   request |-> request, response |-> getTranscript(request, retell)]>>
  /\ UNCHANGED <<impl, state, ref, tasks, clients, timers, now, transcriptRequests>>

\* ---------------------------------------------------------------- mute
\* The connection's microphone switch (RetellWebClient.mute / unmute /
\* toggleMute / isMuted, called at A lines 218 and 220 and B lines 978-979):
\* the switch acts on the published microphone, so it moves only while the
\* call is connected; isMuted() reports it.
Connected(client) == client.phase = "active"
mute(client) == IF Connected(client) THEN [client EXCEPT !.muted = TRUE] ELSE client
unmute(client) == IF Connected(client) THEN [client EXCEPT !.muted = FALSE] ELSE client
ClientToggleMute(client) ==
  IF Connected(client) THEN [client EXCEPT !.muted = ~@] ELSE client
isMuted(client) == client.muted

\* toggleMute, the onClick of the mute button of the calling view (A lines
\* 215-224 and 529, B lines 976-981 and 1486).  A switches the connection by
\* its own isMuted state and then negates that state; B toggles the connection
\* and stores what isMuted() reports.
toggleMute ==
  /\ IsApp
  /\ state.currentState = "calling"
  /\ LET c == ref.retellClientRef IN
     IF c = 0
     THEN UNCHANGED <<state, clients>>
     ELSE IF impl = "A"
     THEN /\ clients' = [clients EXCEPT
               ![c] = IF state.isMuted THEN unmute(@) ELSE mute(@)]
          /\ state' = [state EXCEPT !.isMuted = ~state.isMuted]
     ELSE /\ clients' = [clients EXCEPT ![c] = ClientToggleMute(@)]
          /\ state' = [state EXCEPT !.isMuted = isMuted(clients'[c])]
  /\ UNCHANGED <<impl, ref, tasks, timers, now, transcriptRequests, opLog>>

\* ------------------------------------------------------------- unmount
\* The try / catch around stopCall() in the cleanup of the mount effect
\* (A lines 328-333, B lines 1053-1057): a thrown error is logged and the
\* cleanup function returns normally.
UnmountOutcome(variant, stopThrows) == IF variant = "A" THEN "UA" ELSE "UB"

\* Nothing in the cleanup touches the async functions in flight.  Of these the
\* start-call invocations are followed after the unmount: they go on to write
\* the refs, create a connection and start a timer.
StartTasksCancelled(ts) == <<>>
StartTasks(ts) ==
  SelectSeq(ts, LAMBDA t : t.fn \in {"startCall", "startPracticeCall"})

\* The cleanup function of the mount effect (A lines 322-337, B lines
\* 1047-1060), run when the component is unmounted: it reads the refs, clears
\* the interval callTimerRef names and calls stopCall() on the client
\* retellClientRef holds; stopCall() may throw.  A also empties
\* retellClientRef.
Unmount ==
  /\ IsApp
  /\ \E stopThrows \in BOOLEAN :
       /\ stopThrows => ref.retellClientRef # 0
       /\ impl' = UnmountOutcome(impl, stopThrows)
  /\ timers' = IF ref.callTimerRef # 0 THEN ClearInterval(timers, ref.callTimerRef)
               ELSE timers
  /\ clients' = StopCalled(clients, ref.retellClientRef)
  /\ ref' = IF impl = "A" /\ ref.retellClientRef # 0
            THEN [ref EXCEPT !.retellClientRef = 0] ELSE ref
  /\ tasks' = StartTasks(tasks)
  /\ UNCHANGED <<state, now, transcriptRequests, opLog>>

\* ------------------------------------------------------- specifications
\* apiCallWithRetry driven with an arbitrary operation
NextRetry ==
  \/ OperationSettles
  \/ BackoffElapsed

SpecRetry == InitRetry /\ [][NextRetry]_vars

\* ------------------------------------- one processAiropsDeck attempt in time
\* "D": one invocation of processAiropsDeck (src/api/airopsSession.ts lines
\* 20-81) followed second by second.  now counts the seconds since the
\* invocation; timers holds the timeoutId while the abort timer is armed;
\* the task is at "fetch" (await fetch, line 28), at "body" (await
\* response.text() / response.json(), lines 41 and 46) or is gone, and then
\* opLog holds what the invocation returned.
DeckRequests == {[deck_url |-> url] : url \in {DriveFileLink, OtherHostLink}}
DeckTimeoutId == 1

InitDeckAttempt ==
  /\ impl = "D"
  /\ state = InitialState
  /\ ref = InitialRef
  /\ \E request \in DeckRequests :
       tasks = <<Task("processAiropsDeck", "fetch", NoCapture, NoRetry, 0, request, 0)>>
  /\ clients = <<>>
  /\ timers = {DeckTimeoutId}       \* setTimeout(() => controller.abort(), 60000)
  /\ now = 0
  /\ transcriptRequests = NoTranscriptRequests
  /\ opLog = <<>>

DeckAttemptRunning == impl = "D" /\ tasks # <<>>
DeckTimerDue == DeckTimeoutId \in timers /\ now * 1000 >= DeckTimeoutMs

\* What the invocation returns is recorded with the second it returned at.
DeckAttemptReturns(net) ==
  /\ tasks' = <<>>
  /\ opLog' = <<[input |-> net, at |-> now, result |-> processAiropsDeck(net).value]>>

\* A second passes with the provider silent.  A due timer runs before the
\* clock moves on.
DeckSecondPasses ==
  /\ DeckAttemptRunning
  /\ ~DeckTimerDue
  /\ now < MaxDeckSeconds
  /\ now' = now + 1
  /\ UNCHANGED <<impl, state, ref, tasks, clients, timers, transcriptRequests, opLog>>

\* The timer callback of line 26: controller.abort().  The pending promise of
\* the request (fetch, or the body read of its response) rejects with an
\* AbortError, which the catch of lines 65-73 turns into the timeout answer.
DeckTimeoutFires ==
  /\ DeckAttemptRunning
  /\ DeckTimerDue
  /\ timers' = timers \ {DeckTimeoutId}
  /\ DeckAttemptReturns(NetAbort)
  /\ UNCHANGED <<impl, state, ref, clients, now, transcriptRequests>>

\* "await fetch" settles (lines 28-38): it rejects (network failure; the catch
\* returns and the timer is left armed), or the response headers arrive and
\* clearTimeout(timeoutId) runs before the body is read.
DeckFetchSettles ==
  /\ DeckAttemptRunning
  /\ tasks[1].pc = "fetch"
  /\ \E net \in DeckNetOutcomes \ {NetAbort} :
       IF net.kind = "reject"
       THEN /\ DeckAttemptReturns(net)
            /\ timers' = timers
       ELSE /\ tasks' = <<[tasks[1] EXCEPT !.pc = "body", !.cap = net]>>
            /\ timers' = timers \ {DeckTimeoutId}
            /\ opLog' = opLog
  /\ UNCHANGED <<impl, state, ref, clients, now, transcriptRequests>>

\* The body read settles (lines 40-64): the body arrives and is judged, or the
\* read fails with a network error.
DeckBodySettles ==
  /\ DeckAttemptRunning
  /\ tasks[1].pc = "body"
  /\ \E readFails \in BOOLEAN :
       DeckAttemptReturns(IF readFails THEN NetFailure ELSE tasks[1].cap)
  /\ UNCHANGED <<impl, state, ref, clients, timers, now, transcriptRequests>>

NextDeckAttempt ==
  \/ DeckSecondPasses
  \/ DeckTimeoutFires
  \/ DeckFetchSettles
  \/ DeckBodySettles

SpecDeckAttempt == InitDeckAttempt /\ [][NextDeckAttempt]_vars


\* ------------------------------------ the two landing flows, side by side
\* The first variant is given one submission and is followed until its flow
\* has settled (ready, or back on landing with an error).  What it was given
\* and where it ended is then put in opLog, and the second variant, freshly
\* mounted, is given the same submission and followed in turn.
InitSideBySide == InitApp /\ impl = "A"

\* The submissions compared: every spelling of an empty name and of an empty
\* link, and a link of each shape one of the two validators knows.
SideBySideNames == {<<"Ana">>, <<SP, "Ana">>, <<"Bo">>}
SideBySideLinks ==
  LinkInputs \cup {<<SP, SP>>, DriveOpenLink, DocsPresentationLink, DriveNoIdLink}

FirstVariantSubmits ==
  /\ state.founderName = EmptyStr
  /\ handleStartFrom(SideBySideNames, SideBySideLinks)

FlowSettled == tasks = <<>> /\ state.founderName # EmptyStr

SecondVariantMounts ==
  /\ impl = "A"
  /\ opLog = <<>>
  /\ FlowSettled
  /\ impl' = "B"
  /\ opLog' = <<[founderName |-> state.founderName, driveLink |-> state.driveLink,
                 currentState |-> state.currentState,
                 pitchDeckText |-> state.pitchDeckText]>>
  /\ state' = InitialState
  /\ UNCHANGED <<ref, tasks, clients, timers, now, transcriptRequests>>

SecondVariantSubmits ==
  /\ state.founderName = EmptyStr
  /\ opLog # <<>>
  /\ handleSubmitLinkFrom(SideBySideNames, SideBySideLinks)
  /\ state'.founderName = opLog[1].founderName
  /\ state'.driveLink = opLog[1].driveLink

NextSideBySide ==
  \/ FirstVariantSubmits
  \/ ProcessPitchDeckSettles
  \/ ReadyTimeout
  \/ SecondVariantMounts
  \/ SecondVariantSubmits
  \/ SubmitLinkDeckSettles

SpecSideBySide == InitSideBySide /\ [][NextSideBySide]_vars


\* The backend driven with arbitrary provider answers
NextServer ==
  \/ ProcessDeckRequest
  \/ GetTranscriptRequest

SpecServer == InitServer /\ [][NextServer]_vars

\* The App component, either variant.  No operation the App passes to
\* apiCallWithRetry ever rejects, so no App task is ever in a backoff wait.
Init == InitApp

Next ==
  \/ TimePasses
  \/ ReadyTimeout
  \/ handleSubmitLink
  \/ SubmitLinkDeckSettles
  \/ startPracticeCall
  \/ MicrophoneSettles
  \/ PracticeSessionSettles
  \/ PracticeStartCallRejects
  \/ PracticeCallStarted
  \/ PracticeCallEnded
  \/ CallEndedTranscriptSettles
  \/ PracticeCallError
  \/ PracticeEndCall
  \/ resetApp
  \/ handleStart
  \/ ProcessPitchDeckSettles
  \/ startCall
  \/ StartCallSessionSettles
  \/ StartCallResolves
  \/ StartCallRejects
  \/ EndCallClicked
  \/ handleCallDisconnected
  \/ handleRetellError
  \/ EndCallStopSettles
  \/ EndCallTranscriptSettles
  \/ reset
  \/ toggleMute
  \/ Unmount

Spec == Init /\ [][Next]_vars

\* The App under the scheduling its environment guarantees for the deck flow:
\* every deck-processing request is answered (each attempt terminates, and
\* apiCallWithRetry makes at most DeckMaxAttempts of them), and the 500 ms
\* timer that moves to ready fires.
FairSpec ==
  /\ Spec
  /\ WF_vars(ProcessPitchDeckSettles)
  /\ WF_vars(SubmitLinkDeckSettles)
  /\ WF_vars(ReadyTimeout)


\* ============================================================ properties
\* ------------------------------------------------- apiCallWithRetry (SpecRetry)
Retry == tasks[1].r
LastOutcome == opLog[Len(opLog)]
Failures == {i \in DOMAIN opLog : ~opLog[i].ok}
AlwaysFailed == Failures = DOMAIN opLog

\* C7, as stated: for maxAttempts >= 1 an operation that fails on every
\* invocation is invoked exactly maxAttempts times, and apiCallWithRetry then
\* rejects with the failure value of the last invocation itself.
C7_RejectsWithLastFailureUnchanged ==
  (impl = "R" /\ Retry.cfg.maxAttempts >= 1) =>
     /\ (AlwaysFailed /\ Len(opLog) = Retry.cfg.maxAttempts) => Retry.phase = "thrown"
     /\ Retry.phase = "thrown" =>
          /\ AlwaysFailed
          /\ Len(opLog) = Retry.cfg.maxAttempts
          /\ Retry.invocations = Retry.cfg.maxAttempts
          /\ Retry.thrown = LastOutcome.value

\* C7, amended: for maxAttempts >= 1 an operation that fails on every
\* invocation is invoked exactly maxAttempts times, and apiCallWithRetry then
\* rejects with the last failure value itself when that is an Error, and
\* otherwise with a new Error whose message is the value's string form.
C7_RejectsWithLastError ==
  (impl = "R" /\ Retry.cfg.maxAttempts >= 1) =>
     /\ (AlwaysFailed /\ Len(opLog) = Retry.cfg.maxAttempts) => Retry.phase = "thrown"
     /\ Retry.phase = "thrown" =>
          /\ AlwaysFailed
          /\ Len(opLog) = Retry.cfg.maxAttempts
          /\ Retry.invocations = Retry.cfg.maxAttempts
          /\ Retry.thrown =
               IF LastOutcome.value.type = "Error" THEN LastOutcome.value
               ELSE [type |-> "Error", id |-> "fresh",
                     message |-> LastOutcome.value.message]

\* three failures out of three, the last one a thrown string
C7_Witness ==
  /\ impl = "R" /\ Retry.phase = "thrown" /\ Retry.cfg.maxAttempts = 3
  /\ Len(opLog) = 3
  /\ LastOutcome.value.type = "string"
  /\ Retry.thrown.type = "Error"

\* C8: an operation that fails k times (0 <= k < maxAttempts) and then
\* succeeds makes apiCallWithRetry return that value after exactly k+1
\* invocations and k backoff waits, and no invocation follows a success.
C8_ReturnsFirstSuccess ==
  impl = "R" =>
     /\ \A i \in DOMAIN opLog : opLog[i].ok => i = Len(opLog)
     /\ (AlwaysFailed /\ Len(opLog) < Retry.cfg.maxAttempts)
          => Retry.phase \in {"invoking", "waiting"}
     /\ (opLog # <<>> /\ LastOutcome.ok) => Retry.phase = "returned"
     /\ Retry.phase = "returned" =>
          LET k == Cardinality(Failures) IN
          /\ k < Retry.cfg.maxAttempts
          /\ LastOutcome.ok /\ Retry.result = LastOutcome.value
          /\ Len(opLog) = k + 1 /\ Retry.invocations = k + 1
          /\ Len(Retry.waits) = k

\* two failures, then the success on the third and last attempt
C8_Witness ==
  /\ impl = "R" /\ Retry.phase = "returned" /\ Retry.cfg.maxAttempts = 3
  /\ Cardinality(Failures) = 2 /\ Len(Retry.waits) = 2

\* C9: the wait that follows the failure of attempt number a is
\* min(baseDelay * backoffMultiplier^(a-1), maxDelay); it never exceeds
\* maxDelay, and with the defaults the waits are 1000 ms and then 2000 ms.
C9_BackoffWaits ==
  impl = "R" =>
     /\ \A a \in DOMAIN Retry.waits :
          /\ Retry.waits[a] = Min(Retry.cfg.baseDelay
                                    * Pow(Retry.cfg.backoffMultiplier, a - 1),
                                  Retry.cfg.maxDelay)
          /\ Retry.waits[a] <= Retry.cfg.maxDelay
     /\ (Retry.cfg = [maxAttempts |-> 3, baseDelay |-> 1000, maxDelay |-> 10000,
                      backoffMultiplier |-> 2])
          => Retry.waits \in {<<>>, <<1000>>, <<1000, 2000>>}

\* both waits of a run with the default configuration
C9_Witness ==
  /\ impl = "R"
  /\ Retry.cfg = [maxAttempts |-> 3, baseDelay |-> 1000, maxDelay |-> 10000,
                  backoffMultiplier |-> 2]
  /\ Retry.waits = <<1000, 2000>>

\* ------------------------------------------------------- the App (Spec)
\* the tasks that are inside an end-of-call handler
EndHandlers == EndCallers \cup {"handleCallEnded"}

UserFetch(id) ==
  \E i \in DOMAIN tasks : /\ tasks[i].fn = "endCall" /\ tasks[i].pc = "transcript"
                          /\ tasks[i].request.call_id = id

ProviderFetch(id) ==
  \E i \in DOMAIN tasks :
     /\ tasks[i].fn \in {"handleCallDisconnected", "handleRetellError", "handleCallEnded"}
     /\ tasks[i].pc = "transcript"
     /\ tasks[i].request.call_id = id

\* C1: when the user's end-call action and a provider end event have both
\* arrived for a call, each handler having got as far as the transcript,
\* exactly one transcript request has been issued for that call.
C1_OneTranscriptFetchPerCall ==
  \A id \in CallIds :
     (UserFetch(id) /\ ProviderFetch(id)) => transcriptRequests[id] = 1

\* C2: in every reachable state at most one elapsed-time interval timer is
\* running.
C2_AtMostOneTimer == IsApp => Cardinality(timers) <= 1

CallErrorShown ==
  state.error \in {<<"Call error occurred. Please try again.">>,
                   <<"Call error: ", "provider error">>}

\* C3: whenever the stage is summary or landing, and whenever it is ready
\* again after a call error, no elapsed-time timer is running.
C3_NoTimerAfterCall ==
  impl = "B" =>
    /\ state.currentState \in {"summary", "landing"} => timers = {}
    /\ (state.currentState = "ready" /\ CallErrorShown) => timers = {}

\* a step in which an end signal arrives: the End Call button, the provider's
\* ended / disconnect event, or the provider's error event
EndSignal ==
  \/ PracticeEndCall \/ PracticeCallEnded \/ PracticeCallError
  \/ EndCallClicked \/ handleCallDisconnected \/ handleRetellError

\* an end handler is running, or a stopped call's ended event is still to come
EndInProgress ==
  \/ \E i \in DOMAIN tasks : tasks[i].fn \in EndHandlers
  \/ \E c \in DOMAIN clients : clients[c].stopped /\ clients[c].phase = "active"

\* C4: an end signal in stage calling leads to stage summary.  Every request
\* returns but nothing else has to happen, so the step that takes the signal
\* must show the summary or leave the end of the call in progress.
C4_EndSignalLeadsToSummary ==
  [][(state.currentState = "calling" /\ EndSignal)
       => (state'.currentState = "summary" \/ EndInProgress')]_vars

\* the provider's error event of the current call, while it is active
ErrorOnActiveCall ==
  /\ state.currentState = "calling"
  /\ \E c \in DOMAIN clients :
       /\ ref.retellClientRef = c
       /\ clients[c].phase = "active" /\ ~clients[c].errored
       /\ clients'[c].errored

\* C5: when the provider's error event fires on an active call after n
\* ticks, the call is ended with n seconds as its recorded duration: the
\* step starts an end handler that records the elapsed time of that moment.
C5_ErrorRecordsElapsedTime ==
  [][ErrorOnActiveCall =>
       /\ Len(tasks') = Len(tasks) + 1
       /\ tasks'[Len(tasks')].fn \in EndHandlers
       /\ tasks'[Len(tasks')].cap.callTime = state.callTime]_vars

\* C6: a deck-processing request that fails at the network is retried: the
\* failure is surfaced (stage back to landing) after DeckMaxAttempts requests.
C6_DeckFailureAfterMaxAttempts ==
  [][\A i \in DOMAIN tasks :
        (/\ tasks[i].pc = "deck"
         /\ tasks' = RemoveAt(tasks, i)
         /\ state.currentState = "processing" /\ state'.currentState = "landing"
         /\ Includes(state'.error, "Failed to fetch"))
        => tasks[i].r.invocations = DeckMaxAttempts]_vars

\* C10: a submission with a non-empty founder name and an empty deck link
\* takes the stage from landing to ready in one step and issues no
\* deck-processing request.
C10_EmptyLinkSkipsProcessing ==
  [][((handleStart \/ handleSubmitLink)
        /\ Trim(state'.founderName) # EmptyStr /\ state'.driveLink = EmptyStr)
       => /\ state.currentState = "landing" /\ state'.currentState = "ready"
          /\ tasks' = tasks]_vars

\* the ready stage right after such a submission
C10_Witness ==
  /\ IsApp /\ state.currentState = "ready"
  /\ state.founderName = <<"Ana">> /\ state.driveLink = EmptyStr
  /\ tasks = <<>> /\ clients = <<>>

\* C11: whenever the stage is ready the deck text is non-empty: the extracted
\* text or the "no deck provided" sentinel.
C11_DeckTextAtReady ==
  (IsApp /\ state.currentState = "ready") => state.pitchDeckText # EmptyStr


\* The accepted document-host patterns of the running component:
\* driveRegex (A line 48) or drivePatterns (B lines 700-704).
AcceptedPattern(url) ==
  IF impl = "A" THEN driveRegex(url) ELSE validateGoogleDriveLink(url)

\* C12: a submission whose founder name is empty after trim, or whose deck
\* link is non-empty and matches no accepted document-host pattern, is
\* rejected locally: an error is set, the stage stays landing and no deck
\* request (hence no retry frame) is started.
C12_InvalidSubmissionRejected ==
  [][((handleStart \/ handleSubmitLink)
       /\ (\/ Trim(state'.founderName) = EmptyStr
           \/ (state'.driveLink # EmptyStr /\ ~AcceptedPattern(state'.driveLink))))
     => (/\ state'.currentState = "landing"
         /\ Truthy(state'.error)
         /\ tasks' = tasks)]_vars


\* A step on which deck processing ends in failure: the deck request of
\* processPitchDeck / handleSubmitLink settles and its task ends.
DeckFails ==
  (ProcessPitchDeckSettles \/ SubmitLinkDeckSettles) /\ Len(tasks') < Len(tasks)

\* C13: when deck processing ends in failure the stage is landing with a
\* non-empty error message, and founderName and driveLink still hold the
\* (non-blank) values that were submitted.
C13_DeckFailureReturnsToLanding ==
  [][DeckFails
     => (/\ state'.currentState = "landing"
         /\ Truthy(state'.error) /\ state'.error # EmptyStr
         /\ state'.founderName = state.founderName
         /\ state'.driveLink = state.driveLink
         /\ Trim(state'.founderName) # EmptyStr
         /\ state'.driveLink # EmptyStr)]_vars


\* A deck request is outstanding: sent and not yet settled, or settled with
\* success and waiting for the delayed move to ready.
DeckOutstanding ==
  \E i \in DOMAIN tasks : tasks[i].pc \in {"deck", "readyTimeout"}

\* The steps that create a session or start (a part of) a call.
CallStartStep ==
  \/ startCall \/ StartCallSessionSettles \/ StartCallResolves
  \/ startPracticeCall \/ MicrophoneSettles \/ PracticeSessionSettles
  \/ PracticeCallStarted

\* C14: the stage goes from processing to ready only by the delayed
\* transition of a deck request that succeeded, with no deck request still
\* unsettled; and no session is created and no call is started while a deck
\* request is outstanding (the delayed transition included).
C14_ReadyOnlyAfterDeckSuccess ==
  [][/\ (state.currentState = "processing" /\ state'.currentState = "ready")
        => (ReadyTimeout /\ \A i \in DOMAIN tasks : tasks[i].pc # "deck")
     /\ CallStartStep => ~DeckOutstanding]_vars

\* The stage edges of the top-level state machine.
StageEdges ==
  {<<"landing", "processing">>, <<"landing", "ready">>,
   <<"processing", "ready">>, <<"processing", "landing">>,
   <<"ready", "calling">>, <<"calling", "summary">>, <<"summary", "landing">>}

\* C15: the stage changes only along landing->processing, landing->ready,
\* processing->ready, processing->landing, ready->calling, calling->summary
\* and summary->landing; in particular never from calling back to ready.
C15_StageEdges ==
  [][state'.currentState # state.currentState
       => <<state.currentState, state'.currentState>> \in StageEdges]_vars

\* C16: between two resets the stored call id is written at most once: once
\* set it keeps its value until reset / resetApp clears it.
C16_CallIdWrittenOnce ==
  [][(Truthy(ref.callIdRef) /\ ref'.callIdRef # ref.callIdRef)
       => (reset \/ resetApp)]_vars

\* A step on which a call is finalized: handleCallEnded runs (B), or endCall
\* gets past its stopCall() (A), at once when the ref holds no client.
FinalizeStep ==
  \/ PracticeCallEnded
  \/ EndCallStopSettles
  \/ (EndCallClicked \/ handleCallDisconnected \/ handleRetellError)
       /\ ref.retellClientRef = 0

\* The transcript requests in flight.
TranscriptTasks == {i \in DOMAIN tasks : tasks[i].pc = "transcript"}

\* C17: when a call is finalized a transcript fetch is attempted if and only
\* if a call id is stored: with a call id the finalizing step issues a request
\* for it, without one no request is issued; requests are issued by
\* finalization only and never carry an unset or empty id.
C17_TranscriptFetchIffCallId ==
  [][/\ FinalizeStep =>
          IF Truthy(ref.callIdRef)
          THEN transcriptRequests'[ref.callIdRef] = transcriptRequests[ref.callIdRef] + 1
          ELSE transcriptRequests' = transcriptRequests
     /\ transcriptRequests' # transcriptRequests
          => (FinalizeStep /\ Truthy(ref.callIdRef))
     /\ \A i \in DOMAIN tasks' :
          tasks'[i].pc = "transcript"
            => (Truthy(tasks'[i].request.call_id)
                /\ tasks'[i].request.call_id # EmptyStr)]_vars

\* s occurs in t as a run of consecutive elements (String.prototype.includes)
IsInfix(s, t) ==
  \E k \in 0..(Len(t) - Len(s)) : \A j \in 1..Len(s) : t[k + j] = s[j]

\* How the transcript request can end for the client: the outcomes the
\* callers are run against, and a non-2xx answer of the backend.
TranscriptFetchOutcomes(request) ==
  TranscriptNetOutcomes(request)
    \cup {HttpError(<<"Error retrieving call transcript. Please try again later.">>)}

\* C18: getCallTranscript never raises: on a network failure or a non-success
\* response it returns success = false with a synthetic transcript that
\* embeds both the call id and the call duration of the request.
C18_DegradedTranscriptEmbedsIdAndDuration ==
  \A i \in TranscriptTasks : \A net \in TranscriptFetchOutcomes(tasks[i].request) :
     LET request == tasks[i].request
         response == getCallTranscript(request, net)
     IN /\ response.ok
        /\ (net.kind = "reject" \/ ~net.ok) => ~response.value.success
        /\ ~response.value.success
             => /\ IsInfix(request.call_id, response.value.transcript)
                /\ IsInfix(request.call_duration, response.value.transcript)

\* C19: session creation counts as failed when the response is non-success
\* or lacks access_token or call_id; then no voice connection is created.
\* So every step that creates a connection stores a session answer with a
\* call id, an access token and no error field.
C19_ConnectionNeedsCompleteSession ==
  [][Len(clients') > Len(clients)
       => (/\ Truthy(state'.retellSessionData.call_id)
           /\ Truthy(state'.retellSessionData.access_token)
           /\ ~Truthy(state'.retellSessionData.error)
           /\ Truthy(ref'.callIdRef))]_vars

\* A step on which establishing the voice connection fails after the
\* microphone was granted: session creation ends in failure (the task ends
\* and no client is created), or the client's startCall() rejects.
ConnectionFails ==
  \/ (StartCallSessionSettles \/ PracticeSessionSettles)
       /\ Len(tasks') < Len(tasks) /\ Len(clients') = Len(clients)
  \/ StartCallRejects
  \/ PracticeStartCallRejects

\* C20: when establishing the voice connection fails after the microphone
\* was granted, an error message is shown, the stage is still ready (calling
\* was not entered), the busy indicator is cleared and no timer was started.
C20_ConnectionFailureStaysReady ==
  [][ConnectionFails
       => (/\ Truthy(state'.error)
           /\ state'.currentState = "ready"
           /\ ~state'.isStartingCall
           /\ timers' = timers)]_vars

\* The session-creation requests in flight.
SessionTasks(ts) == {i \in DOMAIN ts : ts[i].pc = "session"}

\* A start-call attempt that ends before session creation: the runtime has no
\* mediaDevices (B lines 797-799) or getUserMedia is denied (B lines 804-809).
PreSessionFailure ==
  \/ startPracticeCall /\ tasks' = tasks
  \/ MicrophoneSettles /\ Len(tasks') < Len(tasks)

\* C21: a start-call action without audio-input capability or with the
\* microphone denied fails before any session-creation request: a session
\* request starts only on the step that grants the microphone; and such a
\* failure changes the error message and the busy flag only (call id,
\* connection, timer and stage are as before).
C21_NoSessionWithoutMicrophone ==
  [][/\ Cardinality(SessionTasks(tasks')) > Cardinality(SessionTasks(tasks))
          => MicrophoneSettles
     /\ PreSessionFailure
          => (/\ Truthy(state'.error) /\ ~state'.isStartingCall
              /\ state' = [state EXCEPT !.error = state'.error,
                                        !.isStartingCall = FALSE]
              /\ ref' = ref /\ clients' = clients /\ timers' = timers
              /\ SessionTasks(tasks') = SessionTasks(tasks))]_vars

\* C22: after the reset action the state is that of a fresh session (stage
\* landing, every field and ref cleared), no timer is running, and no voice
\* connection is held: every connection still open has been asked to stop.
C22_ResetYieldsFreshSession ==
  [][(reset \/ resetApp)
       => (/\ state' = InitialState
           /\ ref' = InitialRef
           /\ timers' = {}
           /\ \A c \in DOMAIN clients' :
                clients'[c].phase \in {"over", "failed"} \/ clients'[c].stopped)]_vars

\* C23: teardown from any reachable state stops the timer if one is running,
\* asks the held voice connection to stop, and completes normally whether or
\* not that stop attempt throws.
C23_UnmountCleansUp ==
  [][Unmount
       => (/\ timers' = {}
           /\ ref.retellClientRef # 0
                => (clients'[ref.retellClientRef].stopped
                    \/ clients'[ref.retellClientRef].phase \in {"over", "failed"})
           /\ impl' \in {"UA", "UB"})]_vars

\* The summary view with its reset button is rendered: A line 584
\* (currentState === 'summary'), B line 1508
\* (currentState === 'summary' && sessionData).
SummaryRendered ==
  /\ state.currentState = "summary"
  /\ impl = "B" => state.sessionData.present

\* C24: whenever the stage is summary the summary view is rendered and the
\* reset action is available, on every path into summary.
C24_SummaryAlwaysRendered ==
  (IsApp /\ state.currentState = "summary")
     => (SummaryRendered /\ (ENABLED reset \/ ENABLED resetApp))

\* A JSON value that is not a string and is truthy (a number, an object).
NonStringValue == <<"<object>">>
IsString(v) == v \notin {NullStr, UndefinedStr, NonStringValue}

\* How the deck request can end for the client: the outcomes the callers are
\* run against, and a 2xx answer whose outputs.pitch_text is not a string.
DeckFetchOutcomes ==
  DeckNetOutcomes \cup {HttpOk(DeckBody(TRUE, NonStringValue, UndefinedStr))}

\* The deck requests in flight.
DeckTasks == {i \in DOMAIN tasks : tasks[i].pc = "deck"}

\* C25: for a submitted deck link, deck processing yields either a success
\* whose text is a non-empty string or a failure with an error message;
\* never a success with empty, missing or non-string text.
C25_DeckSuccessHasText ==
  \A i \in DeckTasks : \A net \in DeckFetchOutcomes :
     LET result == processAiropsDeck(net).value IN
     IF result.success
     THEN IsString(result.pitch_text) /\ result.pitch_text # EmptyStr
     ELSE IsString(result.error) /\ result.error # EmptyStr

\* The answered process-deck requests whose Airops answer was a 2xx payload.
NormalizedDecks ==
  {i \in DOMAIN opLog : opLog[i].route = "process-deck" /\ opLog[i].input.ok}

\* None of the known shapes is present in the payload.
NoKnownShape(data) ==
  /\ ~Truthy(data.outputs_pitch_text) /\ ~Truthy(data.pitch_text)
  /\ ~Truthy(data.text) /\ ~Truthy(data.content)
  /\ Len(data.results) = 0

\* The first four shapes, in the order of the claim: the text of the first
\* that is present.
FirstKnownField(data) ==
  IF Truthy(data.outputs_pitch_text) THEN data.outputs_pitch_text
  ELSE IF Truthy(data.pitch_text) THEN data.pitch_text
  ELSE IF Truthy(data.text) THEN data.text
  ELSE data.content

FormattedTranscripts ==
  {i \in DOMAIN opLog :
     /\ opLog[i].route = "get-transcript" /\ opLog[i].input.ok
     /\ Len(opLog[i].input.body.transcript) > 0}

\* C27: for every non-empty list of utterances the formatted transcript is
\* the turns in their original order, each rendered "<Role>: <text>" with
\* Role "Investor" for the provider role agent and "Founder" for any other
\* role, joined by blank lines, followed by the call duration and the call
\* id.  (Every utterance text of the model is one piece, so a turn takes
\* three pieces and a separator one.)
C27_TranscriptFormat ==
  \A i \in FormattedTranscripts :
     LET entries == opLog[i].input.body.transcript
         request == opLog[i].request
         transcript == opLog[i].response.transcript
         n == Len(entries)
         turns == SubSeq(transcript, 1, 4 * n - 1)
         metadata == SubSeq(transcript, 4 * n, Len(transcript))
     IN /\ opLog[i].response.success /\ opLog[i].response.status = 200
        /\ Len(transcript) >= 4 * n
        /\ \A k \in 1..n :
             /\ Len(entries[k].text) = 1
             /\ turns[4 * k - 3] = (IF entries[k].speaker = "agent"
                                    THEN "Investor" ELSE "Founder")
             /\ turns[4 * k - 2] = ": "
             /\ turns[4 * k - 1] = entries[k].text[1]
             /\ k < n => turns[4 * k] = "\n\n"
        /\ metadata = <<"\n\nCall Duration: ">> \o request.call_duration
                        \o <<"\nCall ID: ">> \o request.call_id

\* a transcript of two turns, the agent's and one of a role that is neither
\* agent nor user, was formatted
C27_Witness ==
  \E i \in FormattedTranscripts :
     LET entries == opLog[i].input.body.transcript IN
     /\ Len(entries) = 2
     /\ entries[1].speaker = "system" /\ entries[2].speaker = "agent"
     /\ entries[1].text # entries[2].text
     /\ opLog[i].response.success


\* ------------------------------------------------ developer / diagnostic view
\* JSON.stringify of the stored session response (variant B line 1577): every
\* field of the object is written out, the access token among them.
StringifySession(session) ==
  <<"success: ">> \o (IF session.success THEN <<"true">> ELSE <<"false">>)
    \o <<"call_id: ">> \o session.call_id
    \o <<"access_token: ">> \o session.access_token
    \o <<"error: ">> \o session.error

\* What the technical-details blocks display of the session response, for a
\* value of the developer flag (showDeveloperMode in variant A, showDisplayStep
\* in variant B).  The flag is a checkbox of the landing page that no handler
\* reads, so every reachable state occurs with either value of it.
\*   variant A, calling view, lines 559-571: call id (and agent id, status)
\*   variant B, calling view, lines 1469-1476: call id (and agent id, status)
\*   variant B, summary view, lines 1560-1577: the whole response, serialised
SessionDetailsRendered(developerMode) ==
  IF ~(developerMode /\ state.retellSessionData.present) THEN <<>>
  ELSE IF state.currentState = "calling"
  THEN <<"Call ID: ">> \o state.retellSessionData.call_id
  ELSE IF impl = "B" /\ state.currentState = "summary" /\ state.sessionData.present
  THEN StringifySession(state.retellSessionData)
  ELSE <<>>

\* C28: the access token returned by session creation is never part of the
\* rendered output, in any stage, with developer mode on or off.
C28_TokenNeverRendered ==
  IsApp /\ Truthy(state.retellSessionData.access_token)
    => \A developerMode \in BOOLEAN :
         ~IsInfix(state.retellSessionData.access_token,
                  SessionDetailsRendered(developerMode))


\* A call is being established: a start-call invocation waits for the
\* microphone, for session creation or for the connection (its startCall()
\* promise is pending and the call has neither started nor failed).
Establishing ==
  \/ \E i \in DOMAIN tasks :
       /\ tasks[i].fn \in {"startCall", "startPracticeCall"}
       /\ tasks[i].pc \in {"mic", "session", "startCall"}
  \/ impl = "B" /\ \E c \in ClientIds :
       clients[c].phase = "connecting" /\ clients[c].promise = "pending"

\* The step on which the call is confirmed started: the call_started event
\* (variant B) or the resolution of "await retellClient.startCall()"
\* (variant A).
ConfirmedStarted == PracticeCallStarted \/ StartCallResolves

\* C29: while a call is being established the stage is ready and the busy
\* indicator is set; the stage becomes calling only on the step that confirms
\* the call started, and on that step the timer is started and the
\* transcript-fetch guard is false.
C29_ReadyAndBusyUntilStarted ==
  [][/\ Establishing => (state.currentState = "ready" /\ state.isStartingCall)
     /\ (state.currentState # "calling" /\ state'.currentState = "calling")
          => (/\ ConfirmedStarted
              /\ state.currentState = "ready"
              /\ ref'.callTimerRef \in timers' \ timers
              /\ ~ref'.apiCallMadeRef)]_vars


\* The connection the ref holds has an active call.
CallActive ==
  ref.retellClientRef # 0 /\ Connected(clients[ref.retellClientRef])

\* C30: after every mute toggle the isMuted state equals the mute status the
\* held connection reports; a toggle while no call is active changes nothing,
\* in particular when no connection is held.
C30_MuteFollowsConnection ==
  [][toggleMute =>
       /\ ref.retellClientRef # 0
            => state'.isMuted = isMuted(clients'[ref.retellClientRef])
       /\ ~CallActive => UNCHANGED vars
       /\ ref.retellClientRef = 0 => UNCHANGED vars]_vars


\* ------------------------------------------ processAiropsDeck (SpecDeckAttempt)
\* C31: a deck-processing attempt never runs past its 60 second timeout,
\* whether it waits for the response or for the body of a response whose
\* headers have arrived; and the answer of an attempt that the timeout ended
\* is the timeout message, which no other failure carries.
C31_AttemptEndsWithinTimeout ==
  impl = "D" =>
    /\ DeckAttemptRunning => now * 1000 <= DeckTimeoutMs
    /\ \A i \in DOMAIN opLog :
         (opLog[i].input = NetAbort) <=> (opLog[i].result.error = DeckTimeoutMessage)


\* ------------------------------------------------- teardown during a start
Unmounted == impl \in {"UA", "UB"}

\* A session-creation request of a start-call invocation is in flight.
SessionInFlight(ts) ==
  \E i \in DOMAIN ts : ts[i].pc = "session" /\ ts[i].r.phase = "invoking"

\* C32: teardown acts on the connection that exists when it runs and on
\* nothing else: it cancels no session-creation request in flight and creates
\* or removes no connection, at most the held one is asked to stop; after it
\* the request can still settle, so the start sequence goes on.
C32_TeardownLeavesStartRunning ==
  /\ [][Unmount =>
          /\ SessionTasks(tasks') = SessionTasks(StartTasks(tasks))
          /\ Cardinality(SessionTasks(tasks')) = Cardinality(SessionTasks(tasks))
          /\ DOMAIN clients' = DOMAIN clients
          /\ \A c \in DOMAIN clients :
               c # ref.retellClientRef => clients'[c] = clients[c]]_vars
  /\ [](Unmounted /\ SessionInFlight(tasks)
          => ENABLED (StartCallSessionSettles \/ PracticeSessionSettles))

\* After a teardown that found no connection, the start sequence created one,
\* its call started and its timer runs: neither was released.
C32_Witness ==
  /\ Unmounted
  /\ ref.retellClientRef # 0
  /\ clients[ref.retellClientRef].phase = "active"
  /\ ~clients[ref.retellClientRef].stopped
  /\ ref.callTimerRef = ref.retellClientRef
  /\ ref.callTimerRef \in timers


\* --------------------------------------- the two landing flows (SpecSideBySide)
\* Both variants have been given the same submission, and both flows have
\* settled; first is where the first variant ended.
BothSettled == impl = "B" /\ opLog # <<>> /\ FlowSettled
First == opLog[1]
EmptyLinkCompared == BothSettled /\ First.driveLink = EmptyStr

\* C33, as stated: on a submission with an empty deck link one variant stays
\* on landing and the other goes to ready, so the two do not end in the same
\* stage with the same deck text.
C33_OneVariantRequiresLink ==
  EmptyLinkCompared =>
    /\ {First.currentState, state.currentState} = {"landing", "ready"}
    /\ <<First.currentState, First.pitchDeckText>>
         # <<state.currentState, state.pitchDeckText>>

\* C33, amended: on a submission with an empty deck link both variants skip
\* processing and end in ready; they differ in the deck text only, which the
\* first leaves empty and the second sets to the "no deck provided" sentence.
C33_BothSkipDeckTextDiffers ==
  EmptyLinkCompared =>
    /\ First.currentState = "ready" /\ state.currentState = "ready"
    /\ First.pitchDeckText = EmptyStr
    /\ state.pitchDeckText = NoDeckSentinel
    /\ First.pitchDeckText # state.pitchDeckText

C33_Witness == EmptyLinkCompared /\ state.founderName = <<"Ana">>


\* C34: whenever the stage is calling a voice connection is held in
\* retellClientRef and exactly one timer is running.
C34_CallingHoldsConnectionAndTimer ==
  (IsApp /\ state.currentState = "calling")
    => (ref.retellClientRef # 0 /\ Cardinality(timers) = 1)


\* A connection on which stopCall() was never called.  Live: it is not
\* stopped and its call is being established or is active.
Unstopped(client) == ~client.stopped /\ client.phase # "over"
Live(client) == ~client.stopped /\ client.phase \in {"connecting", "active"}
LiveClients == {c \in ClientIds : Live(clients[c])}

\* C35: at most one voice connection is live at any time, and a connection
\* object is created only when every connection created before has been
\* stopped or has ended.
C35_AtMostOneLiveConnection ==
  [][/\ Cardinality(LiveClients) <= 1
     /\ Len(clients') > Len(clients)
          => \A c \in ClientIds : ~Unstopped(clients[c])]_vars


\* A listener of connection c runs on this step: an event c emitted.
EventOf(c) ==
  /\ \/ PracticeCallStarted \/ PracticeCallEnded \/ PracticeCallError
     \/ handleCallDisconnected \/ handleRetellError
  /\ clients'[c] # clients[c]

\* C36: an event of a connection that is no longer the latest one (a later
\* start-call has created another connection since) changes neither the
\* stage, the timers, the stored call id nor the session data.
C36_OldConnectionEventsIgnored ==
  [][\A c \in ClientIds :
       (EventOf(c) /\ c < Len(clients))
         => /\ state'.currentState = state.currentState
            /\ timers' = timers
            /\ ref'.callIdRef = ref.callIdRef
            /\ state'.sessionData = state.sessionData
            /\ state'.retellSessionData = state.retellSessionData]_vars


\* C37: a submission whose deck link consists of whitespace only is treated
\* as an empty link: the stage goes from landing to ready and no
\* deck-processing request is issued.
C37_WhitespaceLinkIsEmpty ==
  [][((handleStart \/ handleSubmitLink)
        /\ Trim(state'.founderName) # EmptyStr
        /\ state'.driveLink # EmptyStr /\ Trim(state'.driveLink) = EmptyStr)
       => /\ state.currentState = "landing" /\ state'.currentState = "ready"
          /\ tasks' = tasks]_vars


\* C38: the stage does not stay processing forever: from processing the
\* mounted component eventually shows ready or landing.
C38_ProcessingEnds ==
  (IsApp /\ state.currentState = "processing")
    ~> (~IsApp \/ state.currentState \in {"ready", "landing"})


\* a deck request was answered and the flow has arrived in ready with the
\* extracted text
C38_Witness ==
  /\ IsApp /\ state.currentState = "ready" /\ tasks = <<>>
  /\ state.pitchDeckText = DeckText /\ state.driveLink = DriveFileLink


\* ------------------------------------------------- apiCallWithRetry, again
\* C39: apiCallWithRetry waits only between attempts: every wait has an
\* invocation before it and, once over, one after it; when all maxAttempts
\* invocations have failed it has waited exactly maxAttempts - 1 times, and
\* it rejects on the very step on which the last invocation fails, with no
\* further wait.
C39_WaitsOnlyBetweenAttempts ==
  /\ [](impl = "R" =>
          /\ Len(Retry.waits) <= Retry.invocations
          /\ Retry.phase # "waiting" =>
               (Retry.invocations = 0 \/ Len(Retry.waits) = Retry.invocations - 1)
          /\ (Retry.phase = "thrown" /\ Retry.cfg.maxAttempts >= 1) =>
               /\ Retry.invocations = Retry.cfg.maxAttempts
               /\ Len(Retry.waits) = Retry.cfg.maxAttempts - 1)
  /\ [][(impl = "R" /\ Retry.phase # "thrown" /\ Retry'.phase = "thrown")
          => (OperationSettles /\ ~opLog'[Len(opLog')].ok
              /\ Retry'.waits = Retry.waits)]_vars

\* three failures out of three with the two waits between them
C39_Witness ==
  /\ impl = "R" /\ Retry.phase = "thrown" /\ AlwaysFailed
  /\ Len(opLog) = 3 /\ Retry.invocations = 3 /\ Len(Retry.waits) = 2

\* C40: with maxAttempts <= 0 apiCallWithRetry never invokes the operation
\* and ends in rejection, and what it rejects with is an Error, not an unset
\* value.
C40_NonPositiveRejectsWithError ==
  (impl = "R" /\ Retry.cfg.maxAttempts <= 0) =>
     /\ Retry.invocations = 0 /\ opLog = <<>>
     /\ Retry.phase = "thrown"
     /\ IsError(Retry.thrown)

=============================================================================
